---- MODULE Spec2Model ----
(***************************************************************************)
(* Saved-object dependency and health analysis engine of the Kibana MCP    *)
(* server: buildDependencyTree, analyzeImpact and the Markdown formatter   *)
(* formatDependencyTreeToMarkdown (dependency-analyzer.ts), and            *)
(* analyzeDashboardHealth with batchAnalyzeDashboards (dashboard health    *)
(* analyzer).                                                              *)
(*                                                                         *)
(* Every engine is an async function.  One action of the model is the code *)
(* that runs between two awaited requests to the object store: the request *)
(* is issued at the end of an action and its answer starts the next one.   *)
(***************************************************************************)
EXTENDS Integers, Sequences, FiniteSets, TLC

VARIABLES
    \* ---- buildDependencyTree ----
    store,        \* the object store: references of every object, objects whose fetch errors
    maxDepth,     \* the maxDepth argument
    tPc,          \* "init" | "fetching" | "done" | "failed" (the promise rejects)
    visited,      \* const visited = new Set<string>()
    allNodes,     \* const allNodes = new Map<string, DependencyNode>()
    nodeOrder,    \* insertion order of allNodes (iteration order of a Map)
    stack,        \* suspended traverse() calls, innermost last: [obj, depth, idx]
    fetchLog,     \* keys of the fetches issued so far, in order
    tOutcomes,    \* outcome of every answered fetch, in order: "ok" | "error"
    stubs,        \* nodes returned by traverse()'s catch branch
    tree          \* the DependencyTree returned, NoTree before the return

VARIABLES
    \* ---- analyzeImpact ----
    iPc,          \* "init" | "awaitDirect" | "awaitSecond" | "awaitTarget" | "done" | "failed"
    directDeps,   \* const directDeps = searchResult.saved_objects || []
    iIdx,         \* index in directDeps of the dependent whose reverse-find is awaited
    indirectCount,\* let indirectCount = 0
    riskLevel,    \* let riskLevel, "" before the risk assessment
    iRequests,    \* requests issued to the store so far, in order
    iOutcomes,    \* outcome of every answered request, in order: "ok" | "error"
    iHits,        \* number of objects every answered second-level reverse-find returned
    impact        \* the ImpactAnalysis returned or the error thrown, NoImpact before

VARIABLES
    \* ---- analyzeDashboardHealth ----
    dashboard,      \* the stored dashboard: [status, attributes, references]
    checkESIndices, \* the checkESIndices argument
    hPc,            \* "init" | "awaitRoot" | "awaitPanel" | "awaitIndex" | "done" | "failed"
    panels,         \* const panels = JSON.parse(panelsJSON)
    hIdx,           \* index in panels of the panel whose referenced object is awaited
    panelHealths,   \* const panelHealths: PanelHealth[] = []
    globalIssues,   \* const globalIssues: HealthIssue[] = []
    ipIdx,          \* index in indexPatternRefs of the index pattern awaited
    hRequests,      \* requests issued to the store so far, in order
    hOutcomes,      \* outcome of every answered request, in order: "ok" | "error"
    health          \* the DashboardHealth returned or the error thrown, NoHealth before

VARIABLES
    \* ---- batchAnalyzeDashboards ----
    bStore,         \* the store: outcome of the find, the stored dashboards
    bPc,            \* "init" | "awaitList" | "awaitHealth" | "done" | "failed"
    dashboards,     \* const dashboards = searchResult.saved_objects || []
    bIdx,           \* index in dashboards of the dashboard whose analysis is awaited
    healthReports,  \* const healthReports: DashboardHealth[] = []
    analysed,       \* every analyzeDashboardHealth call that has settled: [id, outcome]
    bRequests,      \* requests batchAnalyzeDashboards itself issued to the store
    bOutcomes,      \* outcome of every answered one: "ok" | "error"
    batch           \* the BatchHealthReport returned or the error thrown, NoBatch before

VARIABLES
    \* ---- a second buildDependencyTree call, running while the first does ----
    second          \* its root, its own visited, allNodes, ... and the tree it returns

VARIABLES
    \* ---- formatDependencyTreeToMarkdown ----
    fPc,            \* "init" | "rendering" | "done"
    fStack,         \* pending formatNodeTree calls and placeholder lines, next one last
    md              \* let md: the lines written so far

treeVars ==
    <<store, maxDepth, tPc, visited, allNodes, nodeOrder, stack, fetchLog, tOutcomes, stubs,
      tree>>

impactVars ==
    <<iPc, directDeps, iIdx, indirectCount, riskLevel, iRequests, iOutcomes, iHits, impact>>

healthVars ==
    <<dashboard, checkESIndices, hPc, panels, hIdx, panelHealths, globalIssues, ipIdx,
      hRequests, hOutcomes, health>>

batchVars ==
    <<bStore, bPc, dashboards, bIdx, healthReports, analysed, bRequests, bOutcomes, batch>>

pairVars == <<second>>

formatVars == <<fPc, fStack, md>>

vars == <<treeVars, pairVars, formatVars, impactVars, healthVars, batchVars>>

\* The state an engine does not touch: that of the other engines.
exceptTree == <<pairVars, formatVars, impactVars, healthVars, batchVars>>

exceptSecond == <<treeVars, formatVars, impactVars, healthVars, batchVars>>

exceptFormat == <<treeVars, pairVars, impactVars, healthVars, batchVars>>

exceptImpact == <<treeVars, pairVars, formatVars, healthVars, batchVars>>

exceptHealth == <<treeVars, pairVars, formatVars, impactVars, batchVars>>

exceptBatch == <<treeVars, pairVars, formatVars, impactVars>>

(***************************************************************************)
(* Bounds of the model.                                                    *)
(***************************************************************************)
MaxRefs == 2          \* longest references list of a stored object
MaxDepthBound == 2    \* maxDepth ranges over 0..MaxDepthBound
MaxDashboards == 11   \* most dashboards among the direct dependents of a target
MaxOthers == 2        \* most direct dependents that are not dashboards
MaxHits == 2          \* most dashboards a second-level reverse-find returns
MaxHead == 1          \* panels of a first kind at the head of a panel layout
MaxFill == 25         \* panels of a second kind that follow them
MaxListed == 10       \* most dashboards the store lists for a batch scan

(***************************************************************************)
(* The object store seen by buildDependencyTree.                           *)
(***************************************************************************)
ObjA == [type |-> "dashboard", id |-> "d1"]
ObjB == [type |-> "visualization", id |-> "v1"]
ObjC == [type |-> "index-pattern", id |-> "ip1"]

Objects == {ObjA, ObjB, ObjC}

\* Objects that may declare references; an index pattern declares none.
Referrers == {ObjA, ObjB}

RootObj == ObjA

\* obj.attributes of the stored objects ("" stands for an absent field).
Attributes(o) ==
    IF o = ObjA THEN [title |-> "Sales", name |-> ""]
    ELSE IF o = ObjB THEN [title |-> "", name |-> ""]
    ELSE [title |-> "", name |-> "logs-*"]

SeqsUpTo(S, n) == UNION {[1..k -> S] : k \in 0..n}

\* obj.references as the store returns it: {id, type, name} entries.
RefEntry(o) == [id |-> o.id, type |-> o.type, name |-> "ref_" \o o.id]

RefLists == {[i \in 1..Len(s) |-> RefEntry(s[i])] : s \in SeqsUpTo(Objects, MaxRefs)}

Stores ==
    {[refs |-> r, failing |-> f] :
        r \in {g \in [Objects -> RefLists] : \A o \in Objects \ Referrers : g[o] = <<>>},
        f \in SUBSET Objects}

\* const key = `${type}:${id}`
Key(type, id) == type \o ":" \o id

KeyOf(o) == Key(o.type, o.id)

\* obj.attributes?.title || obj.attributes?.name
TitleOf(attrs) == IF attrs.title # "" THEN attrs.title ELSE attrs.name

NoTree == [returned |-> FALSE]

(***************************************************************************)
(* traverse(id, type, depth).  A call state c gathers the closure's        *)
(* variables; Run executes the code from the resumption of the innermost   *)
(* suspended call up to the next awaited fetch or to the return of the     *)
(* root call.                                                              *)
(***************************************************************************)

\* Cutoff with a wrong comparison: an object at depth maxDepth is not expanded.
CutoffAtLimit(vis, key, depth, limit) == key \in vis \/ depth >= limit

\* Cutoff without the visited test: only the depth stops the recursion.
CutoffDepthOnly(vis, key, depth, limit) == depth > limit

\* Cutoff that lets the recursion go one level below maxDepth.
CutoffOneDeeper(vis, key, depth, limit) == key \in vis \/ depth > limit + 1

\* if (visited.has(key) || depth > maxDepth) return allNodes.get(key) || {...}
Cutoff(vis, key, depth, limit) == key \in vis \/ depth > limit

\* { id, type, referencedBy: [], references: [], depth }
StubNode(o, depth) ==
    [id |-> o.id, type |-> o.type, title |-> "", referencedBy |-> <<>>,
     references |-> <<>>, depth |-> depth]

\* the node built from a fetched object
FetchedNode(o, depth, refs) ==
    [id |-> o.id, type |-> o.type, title |-> TitleOf(Attributes(o)),
     referencedBy |-> <<>>, references |-> refs, depth |-> depth]

\* allNodes.set(key, node)
MapSet(c, key, node) ==
    [c EXCEPT
        !.allNodes = [k \in DOMAIN c.allNodes \cup {key} |->
                        IF k = key THEN node ELSE c.allNodes[k]],
        !.nodeOrder = IF key \in DOMAIN c.allNodes THEN c.nodeOrder
                      ELSE Append(c.nodeOrder, key)]

\* existingChild.referencedBy.push({ id, type, name: node.title || id })
ReverseEntry(parent) ==
    [id |-> parent.id, type |-> parent.type,
     name |-> IF parent.title # "" THEN parent.title ELSE parent.id]

\* The reverse edge is recorded for the first parent of a child only.
RecordReverseOnce(c, childKey, parentKey) ==
    IF childKey \in DOMAIN c.allNodes /\ c.allNodes[childKey].referencedBy = <<>>
    THEN [c EXCEPT !.allNodes[childKey].referencedBy =
                        Append(@, ReverseEntry(c.allNodes[parentKey]))]
    ELSE c

\* The reverse edge is recorded only for a child that has references itself.
RecordReverseInnerOnly(c, childKey, parentKey) ==
    IF childKey \in DOMAIN c.allNodes /\ c.allNodes[childKey].references # <<>>
    THEN [c EXCEPT !.allNodes[childKey].referencedBy =
                        Append(@, ReverseEntry(c.allNodes[parentKey]))]
    ELSE c

\* const existingChild = allNodes.get(childKey); if (existingChild) push
RecordReverse(c, childKey, parentKey) ==
    IF childKey \in DOMAIN c.allNodes
    THEN [c EXCEPT !.allNodes[childKey].referencedBy =
                        Append(@, ReverseEntry(c.allNodes[parentKey]))]
    ELSE c

\* The call suspends on its fetch without visited.add(key).
SuspendUnmarked(c, o, depth) ==
    [c EXCEPT !.stack = Append(@, [obj |-> o, depth |-> depth, idx |-> 0]),
              !.fetchLog = Append(@, KeyOf(o)),
              !.pc = "fetching"]

\* visited.add(key); await kibanaClient.get(...): the call suspends
Suspend(c, o, depth) ==
    [c EXCEPT !.visited = @ \cup {KeyOf(o)},
              !.stack = Append(@, [obj |-> o, depth |-> depth, idx |-> 0]),
              !.fetchLog = Append(@, KeyOf(o)),
              !.pc = "fetching"]

RECURSIVE Run(_, _), Ret(_, _, _)

\* The for-loop over obj.references of the innermost call, from entry idx+1.
Run(c, limit) ==
    LET n    == Len(c.stack)
        f    == c.stack[n]
        me   == KeyOf(f.obj)
        refs == c.allNodes[me].references
    IN  IF f.idx >= Len(refs)
        THEN \* return node
             Ret([c EXCEPT !.stack = SubSeq(@, 1, n - 1)], me, limit)
        ELSE LET ref   == refs[f.idx + 1]
                 child == [type |-> ref.type, id |-> ref.id]
                 c1    == [c EXCEPT !.stack[n].idx = f.idx + 1]
             IN  IF Cutoff(c1.visited, KeyOf(child), f.depth + 1, limit)
                 THEN Run(RecordReverse(c1, KeyOf(child), me), limit)
                 ELSE Suspend(c1, child, f.depth + 1)

\* traverse() for childKey has returned to its caller.
Ret(c, childKey, limit) ==
    IF c.stack = <<>>
    THEN [c EXCEPT !.pc = "returned"]
    ELSE Run(RecordReverse(c, childKey, KeyOf(c.stack[Len(c.stack)].obj)), limit)

\* A fetch error escapes traverse() and buildDependencyTree rejects.
OnFetchErrorRethrow(c, limit) == [c EXCEPT !.stack = <<>>, !.pc = "failed"]

\* catch (error) { return { id, type, referencedBy: [], references: [], depth } }
OnFetchError(c, limit) ==
    LET n == Len(c.stack)
    IN  Ret([c EXCEPT !.stack = SubSeq(@, 1, n - 1)], KeyOf(c.stack[n].obj), limit)

(***************************************************************************)
(* Statistics computed after the traversal.                                *)
(***************************************************************************)
OrphanLimit == 5
TopLimit == 10

Max(a, b) == IF a >= b THEN a ELSE b

RECURSIVE MaxDepthFound(_, _)
MaxDepthFound(nodes, order) ==
    IF order = <<>> THEN 0
    ELSE Max(nodes[order[1]].depth, MaxDepthFound(nodes, Tail(order)))

Slice(s, n) == SubSeq(s, 1, IF Len(s) < n THEN Len(s) ELSE n)

\* The orphan test without the exclusion of the root.
IsOrphanAnyNode(nodes, key, rootKey) == Len(nodes[key].referencedBy) = 0

\* if (refCount === 0 && key !== `${rootType}:${rootId}`) orphans.push(...)
IsOrphan(nodes, key, rootKey) ==
    Len(nodes[key].referencedBy) = 0 /\ key # rootKey

Orphans(nodes, order, rootKey) ==
    LET keep(k) == IsOrphan(nodes, k, rootKey)
        ks == SelectSeq(order, keep)
    IN  [i \in 1..Len(ks) |->
            [id |-> nodes[ks[i]].id, type |-> nodes[ks[i]].type,
             title |-> nodes[ks[i]].title]]

\* entries sorted by count descending (Array.prototype.sort is stable)
RECURSIVE InsertByCount(_, _, _)
InsertByCount(sorted, key, nodes) ==
    IF sorted = <<>> THEN <<key>>
    ELSE IF Len(nodes[sorted[1]].referencedBy) >= Len(nodes[key].referencedBy)
         THEN <<sorted[1]>> \o InsertByCount(Tail(sorted), key, nodes)
         ELSE <<key>> \o sorted

RECURSIVE SortByCount(_, _)
SortByCount(order, nodes) ==
    IF order = <<>> THEN <<>>
    ELSE InsertByCount(SortByCount(SubSeq(order, 1, Len(order) - 1), nodes),
                       order[Len(order)], nodes)

TopReferenced(nodes, order) ==
    LET ks == Slice(SortByCount(order, nodes), TopLimit)
    IN  [i \in 1..Len(ks) |->
            [id |-> nodes[ks[i]].id, type |-> nodes[ks[i]].type,
             title |-> nodes[ks[i]].title, count |-> Len(nodes[ks[i]].referencedBy)]]

\* return { root, allNodes, summary: {...} }
BuildTree(c, rootNode, rootKey) ==
    [returned |-> TRUE,
     root |-> rootNode,
     allNodes |-> c.allNodes,
     summary |-> [total_objects |-> Cardinality(DOMAIN c.allNodes),
                  max_depth |-> MaxDepthFound(c.allNodes, c.nodeOrder),
                  top_referenced |-> TopReferenced(c.allNodes, c.nodeOrder),
                  orphans |-> Slice(Orphans(c.allNodes, c.nodeOrder, rootKey), OrphanLimit)]]

(***************************************************************************)
(* analyzeImpact(kibanaClient, targetId, targetType, space).               *)
(***************************************************************************)
Target == [type |-> "index-pattern", id |-> "ip1"]

NoImpact == [status |-> "pending"]

RECURSIVE Digits(_)
Digits(n) == IF n < 10 THEN ToString(n) ELSE Digits(n \div 10) \o ToString(n % 10)

\* The saved objects a reverse-find can answer with: nd dashboards and no
\* other dependents, the dashboards first or last; the second dashboard has no title.
Dashboard(i) ==
    [type |-> "dashboard", id |-> "dash" \o Digits(i),
     attributes |-> [title |-> IF i = 2 THEN "" ELSE "Board " \o Digits(i)]]

OtherDep(i) ==
    [type |-> IF i % 2 = 1 THEN "visualization" ELSE "lens", id |-> "dep" \o Digits(i),
     attributes |-> [title |-> "Dependent " \o Digits(i)]]

SavedObjects(nd, no, dashboardsFirst) ==
    LET ds == [i \in 1..nd |-> Dashboard(i)]
        os == [i \in 1..no |-> OtherDep(i)]
    IN  IF dashboardsFirst THEN ds \o os ELSE os \o ds

\* Answers of POST /api/saved_objects/_find; the saved_objects field may be
\* missing (has_saved_objects = FALSE).
NoSavedObjects == [has_saved_objects |-> FALSE, saved_objects |-> <<>>]

DirectAnswers ==
    {[has_saved_objects |-> TRUE, saved_objects |-> SavedObjects(nd, no, b)] :
        nd \in 0..MaxDashboards, no \in 0..MaxOthers, b \in BOOLEAN}
    \cup {NoSavedObjects}

SecondAnswers ==
    {[has_saved_objects |-> TRUE, saved_objects |-> SavedObjects(nd, 0, TRUE)] :
        nd \in 0..MaxHits}
    \cup {NoSavedObjects}

\* Answers of GET /api/saved_objects/{type}/{id} for the target.
TargetAnswers ==
    {[attributes |-> [title |-> "logs-*", name |-> ""]],
     [attributes |-> [title |-> "", name |-> "logs"]]}

ErrorMessages == {"Request failed with status code 404", "Request failed with status code 500"}

\* searchResult.saved_objects || []
OrEmpty(answer) == IF answer.has_saved_objects THEN answer.saved_objects ELSE <<>>

IsDashboard(obj) == obj.type = "dashboard"

\* directDeps.filter(obj => obj.type === 'dashboard').map(...)
AffectedDashboards(deps) ==
    LET ds == SelectSeq(deps, IsDashboard)
    IN  [i \in 1..Len(ds) |->
            [id |-> ds[i].id, type |-> ds[i].type,
             name |-> IF ds[i].attributes.title # "" THEN ds[i].attributes.title
                      ELSE ds[i].id]]

\* The thresholds compared with >= instead of >.
RiskLevelInclusive(n) ==
    IF n >= 10 THEN "Critical"
    ELSE IF n >= 5 THEN "High"
    ELSE IF n > 0 THEN "Medium"
    ELSE "Low"

\* let riskLevel = 'Low'; if (affectedDashboards.length > 10) ... else if ...
RiskLevel(n) ==
    IF n > 10 THEN "Critical"
    ELSE IF n > 5 THEN "High"
    ELSE IF n > 0 THEN "Medium"
    ELSE "Low"

Recommendation(risk) ==
    IF risk = "Critical"
    THEN "Warning: Object is heavily referenced by Dashboards. Deletion/modification may cause severe impact. Recommend testing in test space first."
    ELSE IF risk = "High"
    THEN "Notice: Object is used by multiple Dashboards. Recommend notifying relevant users."
    ELSE IF risk = "Medium"
    THEN "Note: Object has some dependencies. Confirm if referencing parties need synchronous updates."
    ELSE "Safe: Object is not referenced by other objects, can be safely deleted/modified."

FindRequest(types, ref) ==
    [method |-> "POST", path |-> "/api/saved_objects/_find",
     type |-> types, hasReference |-> [type |-> ref.type, id |-> ref.id]]

GetRequest(o) ==
    [method |-> "GET", path |-> "/api/saved_objects/" \o o.type \o "/" \o o.id]

DirectTypes == <<"dashboard", "visualization", "lens", "search", "map">>

\* The call state of analyzeImpact between two requests.
ImpactState ==
    [pc |-> iPc, directDeps |-> directDeps, idx |-> iIdx, indirectCount |-> indirectCount,
     riskLevel |-> riskLevel, requests |-> iRequests, impact |-> impact]

\* throw new Error(`Impact analysis failed: ${error.message}`)
Rejected(c, message) ==
    [c EXCEPT !.pc = "failed",
              !.impact = [status |-> "rejected",
                          message |-> "Impact analysis failed: " \o message]]

\* The loop issues a reverse-find against every dependent, dashboards included.
NextDepEveryDependent(c, i) ==
    IF i > Len(c.directDeps)
    THEN [c EXCEPT !.pc = "awaitTarget",
                   !.idx = i,
                   !.riskLevel = RiskLevel(Len(AffectedDashboards(c.directDeps))),
                   !.requests = Append(@, GetRequest(Target))]
    ELSE [c EXCEPT !.pc = "awaitSecond",
                   !.idx = i,
                   !.requests = Append(@, FindRequest(<<"dashboard">>, c.directDeps[i]))]

\* The reverse-finds against all the remaining dependents are issued together.
NextDepAllAtOnce(c, i) ==
    LET rest == SelectSeq(SubSeq(c.directDeps, i, Len(c.directDeps)),
                          LAMBDA obj : obj.type # "dashboard")
    IN  IF rest = <<>>
        THEN [c EXCEPT !.pc = "awaitTarget",
                       !.idx = Len(c.directDeps) + 1,
                       !.riskLevel = RiskLevel(Len(AffectedDashboards(c.directDeps))),
                       !.requests = Append(@, GetRequest(Target))]
        ELSE [c EXCEPT !.pc = "awaitSecond",
                       !.idx = Len(c.directDeps),
                       !.requests = @ \o [k \in 1..Len(rest) |->
                                            FindRequest(<<"dashboard">>, rest[k])]]

\* The loop ends at the first dashboard instead of skipping it.
NextDepUntilDashboard(c, i) ==
    IF i > Len(c.directDeps) \/ c.directDeps[i].type = "dashboard"
    THEN [c EXCEPT !.pc = "awaitTarget",
                   !.idx = i,
                   !.riskLevel = RiskLevel(Len(AffectedDashboards(c.directDeps))),
                   !.requests = Append(@, GetRequest(Target))]
    ELSE [c EXCEPT !.pc = "awaitSecond",
                   !.idx = i,
                   !.requests = Append(@, FindRequest(<<"dashboard">>, c.directDeps[i]))]

\* The for-loop over directDeps from entry i on: the next dependent that is
\* not a dashboard gets its reverse-find; after the last one the risk is
\* assessed and the target is fetched.
RECURSIVE NextDep(_, _)
NextDep(c, i) ==
    IF i > Len(c.directDeps)
    THEN [c EXCEPT !.pc = "awaitTarget",
                   !.idx = i,
                   !.riskLevel = RiskLevel(Len(AffectedDashboards(c.directDeps))),
                   !.requests = Append(@, GetRequest(Target))]
    ELSE IF c.directDeps[i].type # "dashboard"
    THEN [c EXCEPT !.pc = "awaitSecond",
                   !.idx = i,
                   !.requests = Append(@, FindRequest(<<"dashboard">>, c.directDeps[i]))]
    ELSE NextDep(c, i + 1)

\* A failed second-level reverse-find is skipped and the loop goes on.
OnSecondErrorSkip(c, message) == NextDep(c, c.idx + 1)

\* an error of the awaited second-level reverse-find reaches the outer catch
OnSecondError(c, message) == Rejected(c, message)

InstallImpact(c) ==
    /\ iPc' = c.pc
    /\ directDeps' = c.directDeps
    /\ iIdx' = c.idx
    /\ indirectCount' = c.indirectCount
    /\ riskLevel' = c.riskLevel
    /\ iRequests' = c.requests
    /\ impact' = c.impact

ImpactIdle ==
    /\ iPc = "idle"
    /\ directDeps = <<>>
    /\ iIdx = 0
    /\ indirectCount = 0
    /\ riskLevel = ""
    /\ iRequests = <<>>
    /\ iOutcomes = <<>>
    /\ iHits = <<>>
    /\ impact = NoImpact

ImpactInit ==
    /\ iPc = "init"
    /\ directDeps = <<>>
    /\ iIdx = 0
    /\ indirectCount = 0
    /\ riskLevel = ""
    /\ iRequests = <<>>
    /\ iOutcomes = <<>>
    /\ iHits = <<>>
    /\ impact = NoImpact

\* const searchResult = await kibanaClient.post('/api/saved_objects/_find', ...)
IStart ==
    /\ iPc = "init"
    /\ InstallImpact([ImpactState EXCEPT
            !.pc = "awaitDirect",
            !.requests = Append(@, FindRequest(DirectTypes, Target))])
    /\ UNCHANGED <<iOutcomes, iHits>>
    /\ UNCHANGED exceptImpact

\* The first reverse-find answers.
IDirectOk ==
    /\ iPc = "awaitDirect"
    /\ \E answer \in DirectAnswers :
        InstallImpact(NextDep([ImpactState EXCEPT
            !.directDeps = OrEmpty(answer),
            !.indirectCount = 0], 1))
    /\ iOutcomes' = Append(iOutcomes, "ok")
    /\ UNCHANGED iHits
    /\ UNCHANGED exceptImpact

\* The first reverse-find throws.
IDirectFail ==
    /\ iPc = "awaitDirect"
    /\ \E message \in ErrorMessages : InstallImpact(Rejected(ImpactState, message))
    /\ iOutcomes' = Append(iOutcomes, "error")
    /\ UNCHANGED iHits
    /\ UNCHANGED exceptImpact

\* The reverse-find against directDeps[iIdx] answers.
ISecondOk ==
    /\ iPc = "awaitSecond"
    /\ \E answer \in SecondAnswers :
        /\ InstallImpact(NextDep([ImpactState EXCEPT
                !.indirectCount = @ + Len(OrEmpty(answer))], iIdx + 1))
        /\ iHits' = Append(iHits, Len(OrEmpty(answer)))
    /\ iOutcomes' = Append(iOutcomes, "ok")
    /\ UNCHANGED exceptImpact

\* The reverse-find against directDeps[iIdx] throws.
ISecondFail ==
    /\ iPc = "awaitSecond"
    /\ \E message \in ErrorMessages : InstallImpact(OnSecondError(ImpactState, message))
    /\ iOutcomes' = Append(iOutcomes, "error")
    /\ UNCHANGED iHits
    /\ UNCHANGED exceptImpact

\* const targetObj = await kibanaClient.get(...) answers: return {...}
ITargetOk ==
    /\ iPc = "awaitTarget"
    /\ \E answer \in TargetAnswers :
        InstallImpact([ImpactState EXCEPT
            !.pc = "done",
            !.impact = [status |-> "returned",
                        target |-> [id |-> Target.id, type |-> Target.type,
                                    title |-> TitleOf(answer.attributes)],
                        direct_dependencies |-> Len(directDeps),
                        indirect_dependencies |-> indirectCount,
                        affected_dashboards |-> AffectedDashboards(directDeps),
                        risk_level |-> riskLevel,
                        recommendation |-> Recommendation(riskLevel)]])
    /\ iOutcomes' = Append(iOutcomes, "ok")
    /\ UNCHANGED iHits
    /\ UNCHANGED exceptImpact

\* The fetch of the target throws.
ITargetFail ==
    /\ iPc = "awaitTarget"
    /\ \E message \in ErrorMessages : InstallImpact(Rejected(ImpactState, message))
    /\ iOutcomes' = Append(iOutcomes, "error")
    /\ UNCHANGED iHits
    /\ UNCHANGED exceptImpact

ImpactNext ==
    IStart \/ IDirectOk \/ IDirectFail \/ ISecondOk \/ ISecondFail \/ ITargetOk \/ ITargetFail

(***************************************************************************)
(* analyzeDashboardHealth(kibanaClient, dashboardId, space, checkESIndices) *)
(***************************************************************************)
DashboardId == "dash-1"

NoHealth == [status |-> "pending"]

\* What a GET of a referenced object answers: "ok", "notfound" (the error
\* carries response.status 404) or "error" (any other failure).
ObjectStatus(id) ==
    IF id \in {"vis-ok", "ip-ok"} THEN "ok"
    ELSE IF id \in {"lens-gone", "ip-gone", "ip-gone-2"} THEN "notfound"
    ELSE "error"

\* whether the awaited kibanaClient.get resolves or throws
Outcome(objectStatus) == IF objectStatus = "ok" THEN "ok" ELSE "error"

\* dashboard.references: the entries of the panels, then the index patterns.
\* The last panel entry is named after the id of panel 1, for a panel
\* without panelRefName.
PanelRefs ==
    << [name |-> "panel_0", type |-> "visualization", id |-> "vis-ok"],
       [name |-> "panel_1", type |-> "lens", id |-> "lens-gone"],
       [name |-> "panel_2", type |-> "search", id |-> "search-err"],
       [name |-> "1", type |-> "map", id |-> "vis-ok"] >>

IndexRef(id) ==
    [name |-> "kibanaSavedObjectMeta.searchSourceJSON.index", type |-> "index-pattern", id |-> id]

IndexRefChoices ==
    { <<>>, <<IndexRef("ip-gone")>>,
      <<IndexRef("ip-ok"), IndexRef("ip-gone"), IndexRef("ip-err"), IndexRef("ip-gone-2")>> }

\* A panel of the layout; "" stands for an absent panelRefName or type, and
\* gridData 0 x 0 for an absent gridData.
PanelKinds ==
    [panelRefName : {"panel_0", "panel_1", "panel_2", "panel_9", ""},
     type : {"lens", ""},
     gridData : {[w |-> 24, h |-> 2], [w |-> 7, h |-> 7]}]

FillKinds ==
    {k \in PanelKinds :
        /\ k.type = "lens"
        /\ \/ k.gridData.w = 24
           \/ k.panelRefName = "panel_0"
        /\ k.panelRefName \notin {"panel_2", ""}}

PanelsOf(kind, n, offset) ==
    [i \in 1..n |->
        [id |-> Digits(offset + i), panelRefName |-> kind.panelRefName, type |-> kind.type,
         title |-> "Panel " \o Digits(offset + i), gridData |-> kind.gridData]]

PanelLists ==
    {PanelsOf(k1, n1, 0) \o PanelsOf(k2, n2, n1) :
        k1 \in PanelKinds, n1 \in 0..MaxHead, k2 \in FillKinds, n2 \in 0..MaxFill}

\* attributes.panelsJSON: absent, the empty string, text that is no JSON,
\* JSON of a value that is no list, or the JSON text of a list of panels.
Payloads ==
    {[kind |-> k, panels |-> <<>>] : k \in {"undefined", "empty", "invalid", "notlist"}}
    \cup {[kind |-> "list", panels |-> ps] : ps \in PanelLists}

\* if (!panelsJSON): undefined and "" are falsy
Falsy(payload) == payload.kind \in {"undefined", "empty"}

\* JSON.parse(panelsJSON)
JsonParse(payload) ==
    IF payload.kind \in {"undefined", "empty", "invalid"}
    THEN [threw |-> TRUE, iterable |-> FALSE, value |-> <<>>]
    ELSE IF payload.kind = "notlist"
    THEN [threw |-> FALSE, iterable |-> FALSE, value |-> <<>>]
    ELSE [threw |-> FALSE, iterable |-> TRUE, value |-> payload.panels]

Issue(severity, category, message) ==
    [severity |-> severity, category |-> category, message |-> message]

\* references.find((ref) => ref.name === panelRefId): index of the first match, 0 if none
RECURSIVE FindByName(_, _, _)
FindByName(refs, name, i) ==
    IF i > Len(refs) THEN 0
    ELSE IF refs[i].name = name THEN i
    ELSE FindByName(refs, name, i + 1)

\* const panelRefId = panel.panelRefName || panel.id
PanelRefId(panel) == IF panel.panelRefName # "" THEN panel.panelRefName ELSE panel.id

LargeArea == 48
TooManyPanels == 20

\* checks 3 and 4: panel size and panel type
SizeAndTypeIssues(panel) ==
    (IF panel.gridData.w * panel.gridData.h > LargeArea
     THEN <<Issue("warning", "performance", "Panel size too large may affect performance")>>
     ELSE <<>>)
    \o (IF panel.type = ""
        THEN <<Issue("error", "configuration", "Panel missing type definition")>>
        ELSE <<>>)

IsSevere(issue) == issue.severity = "error" \/ issue.severity = "critical"

\* The status with only severity error counted as severe.
PanelStatusErrorOnly(issues) ==
    IF \E j \in 1..Len(issues) : issues[j].severity = "error" THEN "unhealthy"
    ELSE IF Len(issues) > 0 THEN "warning"
    ELSE "healthy"

\* panelIssues.some(error or critical) ? 'unhealthy' : length > 0 ? 'warning' : 'healthy'
PanelStatus(issues) ==
    IF SelectSeq(issues, IsSevere) # <<>> THEN "unhealthy"
    ELSE IF Len(issues) > 0 THEN "warning"
    ELSE "healthy"

\* panelHealths.push({ panel_id, panel_type, title, issues, status })
PanelHealth(panel, issues) ==
    [panel_id |-> panel.id,
     panel_type |-> IF panel.type # "" THEN panel.type ELSE "unknown",
     title |-> panel.title, issues |-> issues, status |-> PanelStatus(issues)]

\* The score without the lower clamp.
HealthScoreUnclamped(unhealthyCount, warningCount, globalCount) ==
    LET raw == 100 - (unhealthyCount * 20) - (warningCount * 5) - (globalCount * 10)
    IN  IF raw > 100 THEN 100 ELSE raw

\* The score computed from the panels alone, global issues not deducted.
HealthScorePanelsOnly(unhealthyCount, warningCount, globalCount) ==
    LET raw    == 100 - (unhealthyCount * 20) - (warningCount * 5)
        capped == IF raw > 100 THEN 100 ELSE raw
    IN  IF capped < 0 THEN 0 ELSE capped

\* Math.max(0, Math.min(100, 100 - unhealthy * 20 - warning * 5 - global * 10))
HealthScore(unhealthyCount, warningCount, globalCount) ==
    LET raw == 100 - (unhealthyCount * 20) - (warningCount * 5) - (globalCount * 10)
        capped == IF raw > 100 THEN 100 ELSE raw
    IN  IF capped < 0 THEN 0 ELSE capped

CountStatus(phs, status) == Cardinality({i \in 1..Len(phs) : phs[i].status = status})

IsCritical(issue) == issue.severity = "critical"

\* The number of panels that have an issue, not the number of their issues.
RECURSIVE TotalPanelIssuesPerPanel(_)
TotalPanelIssuesPerPanel(phs) ==
    IF phs = <<>> THEN 0
    ELSE (IF phs[1].issues = <<>> THEN 0 ELSE 1) + TotalPanelIssuesPerPanel(Tail(phs))

RECURSIVE TotalPanelIssues(_)
TotalPanelIssues(phs) ==
    IF phs = <<>> THEN 0 ELSE Len(phs[1].issues) + TotalPanelIssues(Tail(phs))

\* The status computed from the panels alone, global issues ignored.
OverallStatusPanelsOnly(unhealthyCount, warningCount, globals) ==
    IF unhealthyCount > 0 THEN "unhealthy"
    ELSE IF warningCount > 0 THEN "warning"
    ELSE "healthy"

\* let overallStatus = 'healthy'; if (...) 'unhealthy' else if (...) 'warning'
OverallStatus(unhealthyCount, warningCount, globals) ==
    IF unhealthyCount > 0 \/ SelectSeq(globals, IsCritical) # <<>> THEN "unhealthy"
    ELSE IF warningCount > 0 \/ Len(globals) > 0 THEN "warning"
    ELSE "healthy"

\* dashboard.attributes?.title || dashboardId
DashboardTitle(d) == IF d.attributes.title # "" THEN d.attributes.title ELSE d.id

\* The call state of analyzeDashboardHealth between two requests.
HealthState ==
    [pc |-> hPc, panels |-> panels, idx |-> hIdx, panelHealths |-> panelHealths,
     globalIssues |-> globalIssues, ipIdx |-> ipIdx, requests |-> hRequests,
     health |-> health]

\* throw new Error(`Health analysis failed: ${error.message}`)
HealthRejected(c, message) ==
    [c EXCEPT !.pc = "failed",
              !.health = [status |-> "rejected",
                          message |-> "Health analysis failed: " \o message]]

\* if (!panelsJSON) return {...}
NoLayoutResult(d) ==
    [status |-> "returned", id |-> d.id, title |-> DashboardTitle(d),
     overall_status |-> "unhealthy", overall_score |-> 0, panel_count |-> 0,
     panels |-> <<>>,
     global_issues |->
        <<Issue("error", "configuration", "Dashboard has no panels configured")>>,
     summary |-> [healthy_panels |-> 0, warning_panels |-> 0, unhealthy_panels |-> 0,
                  total_issues |-> 1]]

\* Calculate overall health; return {...}
Finish(c, d) ==
    LET healthyCount   == CountStatus(c.panelHealths, "healthy")
        warningCount   == CountStatus(c.panelHealths, "warning")
        unhealthyCount == CountStatus(c.panelHealths, "unhealthy")
    IN  [c EXCEPT
            !.pc = "done",
            !.health =
                [status |-> "returned", id |-> d.id, title |-> DashboardTitle(d),
                 overall_status |-> OverallStatus(unhealthyCount, warningCount, c.globalIssues),
                 overall_score |->
                    HealthScore(unhealthyCount, warningCount, Len(c.globalIssues)),
                 panel_count |-> Len(c.panels),
                 panels |-> c.panelHealths,
                 global_issues |-> c.globalIssues,
                 summary |-> [healthy_panels |-> healthyCount,
                              warning_panels |-> warningCount,
                              unhealthy_panels |-> unhealthyCount,
                              total_issues |->
                                 TotalPanelIssues(c.panelHealths) + Len(c.globalIssues)]]]

IsIndexPattern(ref) == ref.type = "index-pattern"

\* references.filter((ref) => ref.type === 'index-pattern')
IndexPatternRefs(d) == SelectSeq(d.references, IsIndexPattern)

\* The loop over indexPatternRefs from entry j on: fetch the next one, or finish.
RunIndex(c, d, j) ==
    IF j > Len(IndexPatternRefs(d))
    THEN Finish(c, d)
    ELSE [c EXCEPT !.pc = "awaitIndex",
                   !.ipIdx = j,
                   !.requests = Append(@, GetRequest(IndexPatternRefs(d)[j]))]

\* The complexity check with the threshold included.
GlobalChecksInclusive(c, d, check) ==
    LET c1 == IF Len(c.panels) >= TooManyPanels
              THEN [c EXCEPT !.globalIssues =
                        Append(@, Issue("warning", "performance",
                            "Dashboard contains " \o Digits(Len(c.panels))
                                \o " Panels, may cause slow loading"))]
              ELSE c
    IN  IF check THEN RunIndex(c1, d, 1) ELSE Finish(c1, d)

\* Global checks, entered when the loop over the panels is over.
GlobalChecks(c, d, check) ==
    LET c1 == IF Len(c.panels) > TooManyPanels
              THEN [c EXCEPT !.globalIssues =
                        Append(@, Issue("warning", "performance",
                            "Dashboard contains " \o Digits(Len(c.panels))
                                \o " Panels, may cause slow loading"))]
              ELSE c
    IN  IF check THEN RunIndex(c1, d, 1) ELSE Finish(c1, d)

\* The loop over the panels from entry i on, up to the next awaited fetch.
RECURSIVE RunPanels(_, _, _, _)
RunPanels(c, d, check, i) ==
    IF i > Len(c.panels)
    THEN GlobalChecks([c EXCEPT !.idx = i], d, check)
    ELSE LET panel == c.panels[i]
             r     == FindByName(d.references, PanelRefId(panel), 1)
         IN  IF r = 0
             THEN RunPanels(
                    [c EXCEPT !.panelHealths = Append(@, PanelHealth(panel,
                        <<Issue("error", "broken_reference",
                                "Panel missing reference definition")>>
                        \o SizeAndTypeIssues(panel)))],
                    d, check, i + 1)
             ELSE [c EXCEPT !.pc = "awaitPanel",
                            !.idx = i,
                            !.requests = Append(@, GetRequest(d.references[r]))]

\* The catch records the missing object with the severity of missing wiring.
PanelFetchIssuesAsError(answer, ref) ==
    IF answer = "notfound"
    THEN <<Issue("error", "broken_reference",
                 "Referenced " \o ref.type \o " object does not exist")>>
    ELSE <<>>

\* The issue the catch around the fetch of a panel's object records.
PanelFetchIssues(answer, ref) ==
    IF answer = "notfound"
    THEN <<Issue("critical", "broken_reference",
                 "Referenced " \o ref.type \o " object does not exist")>>
    ELSE <<>>

\* The catch records an issue for every failed fetch, not-found or not.
IndexFetchIssuesAnyError(answer, ref) ==
    IF answer # "ok"
    THEN <<Issue("critical", "broken_reference",
                 "Referenced index pattern does not exist: " \o ref.id)>>
    ELSE <<>>

\* The issue the catch around the fetch of an index pattern records.
IndexFetchIssues(answer, ref) ==
    IF answer = "notfound"
    THEN <<Issue("critical", "broken_reference",
                 "Referenced index pattern does not exist: " \o ref.id)>>
    ELSE <<>>

\* The dashboard is parsed although it has no panel layout.
AfterRootIgnoringFalsy(c, d, check) ==
    LET parsed == JsonParse(d.attributes.panelsJSON)
    IN  IF parsed.threw
        THEN HealthRejected(c, "Unexpected token in JSON")
        ELSE IF ~parsed.iterable
        THEN HealthRejected(c, "panels is not iterable")
        ELSE RunPanels([c EXCEPT !.panels = parsed.value], d, check, 1)

\* The code that follows the fetch of the dashboard, up to the next fetch.
AfterRoot(c, d, check) ==
    IF Falsy(d.attributes.panelsJSON)
    THEN [c EXCEPT !.pc = "done", !.health = NoLayoutResult(d)]
    ELSE LET parsed == JsonParse(d.attributes.panelsJSON)
         IN  IF parsed.threw
             THEN HealthRejected(c, "Unexpected token in JSON")
             ELSE IF ~parsed.iterable
             THEN HealthRejected(c, "panels is not iterable")
             ELSE RunPanels([c EXCEPT !.panels = parsed.value], d, check, 1)

InstallHealth(c) ==
    /\ hPc' = c.pc
    /\ panels' = c.panels
    /\ hIdx' = c.idx
    /\ panelHealths' = c.panelHealths
    /\ globalIssues' = c.globalIssues
    /\ ipIdx' = c.ipIdx
    /\ hRequests' = c.requests
    /\ health' = c.health

Dashboards ==
    {[id |-> DashboardId, status |-> "ok",
      attributes |-> [title |-> "Operations", panelsJSON |-> p],
      references |-> PanelRefs \o ips] : p \in Payloads, ips \in IndexRefChoices}
    \cup
    {[id |-> DashboardId, status |-> st,
      attributes |-> [title |-> "", panelsJSON |-> [kind |-> "undefined", panels |-> <<>>]],
      references |-> <<>>] : st \in {"notfound", "error"}}

HealthIdle ==
    /\ dashboard = [status |-> "notfound"]
    /\ checkESIndices = FALSE
    /\ hPc = "idle"
    /\ panels = <<>>
    /\ hIdx = 0
    /\ panelHealths = <<>>
    /\ globalIssues = <<>>
    /\ ipIdx = 0
    /\ hRequests = <<>>
    /\ hOutcomes = <<>>
    /\ health = NoHealth

HealthInit ==
    /\ dashboard \in Dashboards
    /\ checkESIndices \in BOOLEAN
    /\ hPc = "init"
    /\ panels = <<>>
    /\ hIdx = 0
    /\ panelHealths = <<>>
    /\ globalIssues = <<>>
    /\ ipIdx = 0
    /\ hRequests = <<>>
    /\ hOutcomes = <<>>
    /\ health = NoHealth

\* const dashboard = await kibanaClient.get(`/api/saved_objects/dashboard/${dashboardId}`)
HStart ==
    /\ hPc = "init"
    /\ InstallHealth([HealthState EXCEPT
            !.pc = "awaitRoot",
            !.requests = Append(@, GetRequest([type |-> "dashboard", id |-> dashboard.id]))])
    /\ UNCHANGED <<dashboard, checkESIndices, hOutcomes>>
    /\ UNCHANGED exceptHealth

\* The fetch of the dashboard throws.
HRootFail ==
    /\ hPc = "awaitRoot"
    /\ dashboard.status # "ok"
    /\ InstallHealth(HealthRejected(HealthState,
            IF dashboard.status = "notfound" THEN "Request failed with status code 404"
            ELSE "Request failed with status code 500"))
    /\ hOutcomes' = Append(hOutcomes, "error")
    /\ UNCHANGED <<dashboard, checkESIndices>>
    /\ UNCHANGED exceptHealth

\* The fetch of the dashboard answers.
HRootOk ==
    /\ hPc = "awaitRoot"
    /\ dashboard.status = "ok"
    /\ InstallHealth(AfterRoot(HealthState, dashboard, checkESIndices))
    /\ hOutcomes' = Append(hOutcomes, "ok")
    /\ UNCHANGED <<dashboard, checkESIndices>>
    /\ UNCHANGED exceptHealth

\* The fetch of the object panel hIdx refers to answers or throws.
HPanelAnswer ==
    /\ hPc = "awaitPanel"
    /\ LET panel == panels[hIdx]
           ref   == dashboard.references[FindByName(dashboard.references, PanelRefId(panel), 1)]
           found == PanelFetchIssues(ObjectStatus(ref.id), ref)
       IN  /\ InstallHealth(RunPanels(
                [HealthState EXCEPT !.panelHealths =
                    Append(@, PanelHealth(panel, found \o SizeAndTypeIssues(panel)))],
                dashboard, checkESIndices, hIdx + 1))
           /\ hOutcomes' = Append(hOutcomes, Outcome(ObjectStatus(ref.id)))
    /\ UNCHANGED <<dashboard, checkESIndices>>
    /\ UNCHANGED exceptHealth

\* The fetch of index pattern ipIdx answers or throws.
HIndexAnswer ==
    /\ hPc = "awaitIndex"
    /\ LET ref == IndexPatternRefs(dashboard)[ipIdx]
       IN  /\ InstallHealth(RunIndex(
                [HealthState EXCEPT !.globalIssues =
                    @ \o IndexFetchIssues(ObjectStatus(ref.id), ref)],
                dashboard, ipIdx + 1))
           /\ hOutcomes' = Append(hOutcomes, Outcome(ObjectStatus(ref.id)))
    /\ UNCHANGED <<dashboard, checkESIndices>>
    /\ UNCHANGED exceptHealth

HealthNext == HStart \/ HRootFail \/ HRootOk \/ HPanelAnswer \/ HIndexAnswer

(***************************************************************************)
(* batchAnalyzeDashboards(kibanaClient, space, maxDashboards).             *)
(***************************************************************************)
DefaultMaxDashboards == 50

NoBatch == [status |-> "pending"]

\* The stored dashboards of a scan: what the analysis of one of them meets.
BatchKinds == {"healthy", "warning", "broken", "nolayout", "unparsable", "unreachable"}

OnePanel(refName, w, h) ==
    [kind |-> "list",
     panels |-> PanelsOf([panelRefName |-> refName, type |-> "lens",
                          gridData |-> [w |-> w, h |-> h]], 1, 0)]

BatchDashboard(i, kind) ==
    [id |-> "dash-" \o Digits(i),
     status |-> IF kind = "unreachable" THEN "error" ELSE "ok",
     attributes |->
        [title |-> "Board " \o Digits(i),
         panelsJSON |->
            CASE kind = "healthy" -> OnePanel("panel_0", 24, 2)
              [] kind = "warning" -> OnePanel("panel_0", 7, 7)
              [] kind = "broken" -> OnePanel("panel_1", 24, 2)
              [] kind = "unparsable" -> [kind |-> "invalid", panels |-> <<>>]
              [] OTHER -> [kind |-> "undefined", panels |-> <<>>]],
     references |-> PanelRefs \o <<IndexRef("ip-gone")>>]

\* n dashboards of one kind, the one at position p (if any) of another kind
BatchStores ==
    {[find |-> "ok",
      objects |-> [i \in 1..n |-> BatchDashboard(i, IF i = p THEN k2 ELSE k1)]] :
        n \in 0..MaxListed, p \in 0..MaxListed, k1 \in BatchKinds, k2 \in BatchKinds}
    \cup
    {[find |-> f, objects |-> <<BatchDashboard(1, "healthy")>>] : f \in {"nofield", "error"}}

\* { type: 'dashboard', perPage: maxDashboards, fields: ['title'] }
ListRequest ==
    [method |-> "POST", path |-> "/api/saved_objects/_find", type |-> "dashboard",
     perPage |-> DefaultMaxDashboards, fields |-> <<"title">>]

\* The answer of the find: at most perPage dashboards, with their titles.
ListAnswer(st) ==
    IF st.find = "nofield" THEN NoSavedObjects
    ELSE [has_saved_objects |-> TRUE,
          saved_objects |->
            [i \in 1..Len(Slice(st.objects, DefaultMaxDashboards)) |->
                [id |-> st.objects[i].id, type |-> "dashboard",
                 attributes |-> [title |-> st.objects[i].attributes.title]]]]

\* GET /api/saved_objects/dashboard/{id} as the store answers it
Stored(st, id) ==
    LET i == CHOOSE j \in 1..Len(st.objects) : st.objects[j].id = id
    IN  st.objects[i]

\* analyzeDashboardHealth(kibanaClient, dashboard.id, space, false) up to its first await
RootRequested(id) ==
    [pc |-> "awaitRoot", panels |-> <<>>, idx |-> 0, panelHealths |-> <<>>,
     globalIssues |-> <<>>, ipIdx |-> 0,
     requests |-> <<GetRequest([type |-> "dashboard", id |-> id])>>,
     health |-> NoHealth]

CountOverall(reports, status) ==
    Cardinality({i \in 1..Len(reports) : reports[i].overall_status = status})

CriticalIn(issues) == Len(SelectSeq(issues, IsCritical))

RECURSIVE CriticalInPanels(_)
CriticalInPanels(phs) ==
    IF phs = <<>> THEN 0 ELSE CriticalIn(phs[1].issues) + CriticalInPanels(Tail(phs))

\* The sum over the global issues alone.
RECURSIVE CriticalIssuesGlobalOnly(_)
CriticalIssuesGlobalOnly(reports) ==
    IF reports = <<>> THEN 0
    ELSE CriticalIn(reports[1].global_issues) + CriticalIssuesGlobalOnly(Tail(reports))

RECURSIVE CriticalIssues(_)
CriticalIssues(reports) ==
    IF reports = <<>> THEN 0
    ELSE CriticalIn(reports[1].global_issues) + CriticalInPanels(reports[1].panels)
            + CriticalIssues(Tail(reports))

\* const summary = {...}
BatchSummary(reports) ==
    [total_dashboards |-> Len(reports),
     healthy |-> CountOverall(reports, "healthy"),
     warning |-> CountOverall(reports, "warning"),
     unhealthy |-> CountOverall(reports, "unhealthy"),
     critical_issues |-> CriticalIssues(reports)]

\* The report of an unhealthy dashboard is dropped like a failed analysis.
CollectedUnlessUnhealthy(reports, c) ==
    IF c.pc = "done" /\ c.health.overall_status # "unhealthy"
    THEN Append(reports, c.health)
    ELSE reports

\* try { healthReports.push(await analyzeDashboardHealth(...)) } catch { /* continue */ }
Collected(reports, c) ==
    IF c.pc = "done" THEN Append(reports, c.health) ELSE reports

\* The for-loop over dashboards from entry i on: the analysis of the next
\* dashboard is called and runs up to its first fetch, or the report is returned.
BLoop(ds, reports, i) ==
    /\ healthReports' = reports
    /\ bIdx' = i
    /\ IF i > Len(ds)
       THEN /\ bPc' = "done"
            /\ batch' = [status |-> "returned", dashboards |-> reports,
                         summary |-> BatchSummary(reports)]
            /\ UNCHANGED healthVars
       ELSE /\ bPc' = "awaitHealth"
            /\ batch' = batch
            /\ dashboard' = Stored(bStore, ds[i].id)
            /\ checkESIndices' = FALSE
            /\ hOutcomes' = <<>>
            /\ InstallHealth(RootRequested(ds[i].id))

BatchIdle ==
    /\ bStore = [find |-> "ok", objects |-> <<>>]
    /\ bPc = "idle"
    /\ dashboards = <<>>
    /\ bIdx = 0
    /\ healthReports = <<>>
    /\ analysed = <<>>
    /\ bRequests = <<>>
    /\ bOutcomes = <<>>
    /\ batch = NoBatch

BatchInit ==
    /\ bStore \in BatchStores
    /\ bPc = "init"
    /\ dashboards = <<>>
    /\ bIdx = 0
    /\ healthReports = <<>>
    /\ analysed = <<>>
    /\ bRequests = <<>>
    /\ bOutcomes = <<>>
    /\ batch = NoBatch

\* const searchResult = await kibanaClient.post('/api/saved_objects/_find', ...)
BStart ==
    /\ bPc = "init"
    /\ bPc' = "awaitList"
    /\ bRequests' = Append(bRequests, ListRequest)
    /\ UNCHANGED <<bStore, dashboards, bIdx, healthReports, analysed, bOutcomes, batch>>
    /\ UNCHANGED healthVars
    /\ UNCHANGED exceptBatch

\* The find answers: the loop over the dashboards starts.
BListOk ==
    /\ bPc = "awaitList"
    /\ bStore.find # "error"
    /\ bOutcomes' = Append(bOutcomes, "ok")
    /\ dashboards' = OrEmpty(ListAnswer(bStore))
    /\ BLoop(OrEmpty(ListAnswer(bStore)), <<>>, 1)
    /\ UNCHANGED <<bStore, bRequests, analysed>>
    /\ UNCHANGED exceptBatch

\* The find throws: throw new Error(`Batch health analysis failed: ...`)
BListFail ==
    /\ bPc = "awaitList"
    /\ bStore.find = "error"
    /\ bOutcomes' = Append(bOutcomes, "error")
    /\ bPc' = "failed"
    /\ batch' = [status |-> "rejected",
                 message |-> "Batch health analysis failed: "
                                \o "Request failed with status code 500"]
    /\ UNCHANGED <<bStore, dashboards, bIdx, healthReports, analysed, bRequests>>
    /\ UNCHANGED healthVars
    /\ UNCHANGED exceptBatch

\* The awaited analyzeDashboardHealth call has settled: its report is pushed
\* or its error is dropped, and the loop goes on.
BCollect ==
    /\ bPc = "awaitHealth"
    /\ hPc \in {"done", "failed"}
    /\ analysed' = Append(analysed, [id |-> dashboards[bIdx].id, outcome |-> health.status])
    /\ BLoop(dashboards, Collected(healthReports, HealthState), bIdx + 1)
    /\ UNCHANGED <<bStore, dashboards, bRequests, bOutcomes>>
    /\ UNCHANGED exceptBatch

BatchNext == BStart \/ BListOk \/ BListFail \/ BCollect \/ HRootFail \/ HRootOk \/ HPanelAnswer

(***************************************************************************)
(* Actions of buildDependencyTree.                                         *)
(***************************************************************************)
CallState ==
    [visited |-> visited, allNodes |-> allNodes, nodeOrder |-> nodeOrder,
     stack |-> stack, fetchLog |-> fetchLog, pc |-> tPc]

\* Install the call state c; when the root call has returned, finish the function.
Install(c, rootNode) ==
    /\ visited' = c.visited
    /\ allNodes' = c.allNodes
    /\ nodeOrder' = c.nodeOrder
    /\ stack' = c.stack
    /\ fetchLog' = c.fetchLog
    /\ IF c.pc = "returned"
       THEN /\ tPc' = "done"
            /\ tree' = BuildTree(c, rootNode, Key(RootObj.type, RootObj.id))
       ELSE /\ tPc' = c.pc
            /\ tree' = tree

TreeInit ==
    /\ store \in Stores
    /\ maxDepth \in 0..MaxDepthBound
    /\ tPc = "init"
    /\ visited = {}
    /\ allNodes = << >>
    /\ nodeOrder = <<>>
    /\ stack = <<>>
    /\ fetchLog = <<>>
    /\ tOutcomes = <<>>
    /\ stubs = {}
    /\ tree = NoTree

\* the call has been made and has not run yet
CanStart == tPc = "init"

\* a traverse() call is suspended on its fetch
CanResume == tPc = "fetching" /\ stack # <<>>

\* const root = await traverse(rootId, rootType, 0), up to the first fetch
TStart ==
    /\ CanStart
    /\ IF Cutoff(visited, KeyOf(RootObj), 0, maxDepth)
       THEN Install([CallState EXCEPT !.pc = "returned"], StubNode(RootObj, 0))
       ELSE Install(Suspend(CallState, RootObj, 0), StubNode(RootObj, 0))
    /\ UNCHANGED <<store, maxDepth, stubs, tOutcomes>>
    /\ UNCHANGED exceptTree

\* The awaited fetch of the innermost call answers with the object.
TFetchOk ==
    /\ CanResume
    /\ LET f    == stack[Len(stack)]
           key  == KeyOf(f.obj)
           node == FetchedNode(f.obj, f.depth, store.refs[f.obj])
           c    == Run(MapSet(CallState, key, node), maxDepth)
           rk   == KeyOf(RootObj)
       IN  /\ f.obj \notin store.failing
           /\ Install(c, IF rk \in DOMAIN c.allNodes THEN c.allNodes[rk]
                         ELSE StubNode(RootObj, 0))
    /\ tOutcomes' = Append(tOutcomes, "ok")
    /\ UNCHANGED <<store, maxDepth, stubs>>
    /\ UNCHANGED exceptTree

\* The awaited fetch throws: catch (error) { return {...stub} }
TFetchFail ==
    /\ CanResume
    /\ LET n    == Len(stack)
           f    == stack[n]
           stub == StubNode(f.obj, f.depth)
           c    == OnFetchError(CallState, maxDepth)
           rk   == KeyOf(RootObj)
       IN  /\ f.obj \in store.failing
           /\ stubs' = stubs \cup {stub}
           /\ Install(c, IF rk \in DOMAIN c.allNodes THEN c.allNodes[rk]
                         ELSE StubNode(RootObj, 0))
    /\ tOutcomes' = Append(tOutcomes, "error")
    /\ UNCHANGED <<store, maxDepth>>
    /\ UNCHANGED exceptTree

TreeNext == TStart \/ TFetchOk \/ TFetchFail

(***************************************************************************)
(* A second call of buildDependencyTree against the same store.  Its       *)
(* steps run while the first call is suspended on a fetch, or before or    *)
(* after it.                                                               *)
(***************************************************************************)
NoSecond ==
    [root |-> RootObj, pc |-> "idle", visited |-> {}, allNodes |-> << >>,
     nodeOrder |-> <<>>, stack |-> <<>>, fetchLog |-> <<>>, tree |-> NoTree,
     interleaved |-> FALSE]

\* The second call's closure reads the visited set of the first call.
SecondStateShared ==
    [visited |-> visited, allNodes |-> second.allNodes,
     nodeOrder |-> second.nodeOrder, stack |-> second.stack,
     fetchLog |-> second.fetchLog, pc |-> second.pc]

\* const allNodes = new Map(); const visited = new Set(): locals of the call
SecondState ==
    [visited |-> second.visited, allNodes |-> second.allNodes,
     nodeOrder |-> second.nodeOrder, stack |-> second.stack,
     fetchLog |-> second.fetchLog, pc |-> second.pc]

\* Install the call state c of the second call; interleaved records that a
\* step of it ran while the first call was suspended on a fetch.
InstallSecond(c) ==
    LET rk == KeyOf(second.root)
        rootNode == IF rk \in DOMAIN c.allNodes THEN c.allNodes[rk]
                    ELSE StubNode(second.root, 0)
    IN  second' =
            [second EXCEPT
                !.visited = c.visited,
                !.allNodes = c.allNodes,
                !.nodeOrder = c.nodeOrder,
                !.stack = c.stack,
                !.fetchLog = c.fetchLog,
                !.pc = IF c.pc = "returned" THEN "done" ELSE c.pc,
                !.tree = IF c.pc = "returned" THEN BuildTree(c, rootNode, rk) ELSE @,
                !.interleaved = @ \/ tPc = "fetching"]

SecondIdle == second = NoSecond

SecondInit == \E r \in Referrers : second = [NoSecond EXCEPT !.root = r, !.pc = "init"]

T2Start ==
    /\ second.pc = "init"
    /\ IF Cutoff(second.visited, KeyOf(second.root), 0, maxDepth)
       THEN InstallSecond([SecondState EXCEPT !.pc = "returned"])
       ELSE InstallSecond(Suspend(SecondState, second.root, 0))
    /\ UNCHANGED exceptSecond

T2FetchOk ==
    /\ second.pc = "fetching"
    /\ LET f    == second.stack[Len(second.stack)]
           node == FetchedNode(f.obj, f.depth, store.refs[f.obj])
       IN  /\ f.obj \notin store.failing
           /\ InstallSecond(Run(MapSet(SecondState, KeyOf(f.obj), node), maxDepth))
    /\ UNCHANGED exceptSecond

T2FetchFail ==
    /\ second.pc = "fetching"
    /\ second.stack[Len(second.stack)].obj \in store.failing
    /\ InstallSecond(OnFetchError(SecondState, maxDepth))
    /\ UNCHANGED exceptSecond

PairNext == TStart \/ TFetchOk \/ TFetchFail \/ T2Start \/ T2FetchOk \/ T2FetchFail

\* buildDependencyTree run alone: every fetch is answered as soon as it is issued
RECURSIVE Complete(_, _, _)
Complete(c, st, limit) ==
    IF c.pc # "fetching" THEN c
    ELSE LET f == c.stack[Len(c.stack)]
         IN  IF f.obj \in st.failing
             THEN Complete(OnFetchError(c, limit), st, limit)
             ELSE Complete(
                    Run(MapSet(c, KeyOf(f.obj),
                               FetchedNode(f.obj, f.depth, st.refs[f.obj])), limit),
                    st, limit)

SoloTree(st, root, limit) ==
    LET c0 == [visited |-> {}, allNodes |-> << >>, nodeOrder |-> <<>>, stack |-> <<>>,
               fetchLog |-> <<>>, pc |-> "init"]
        c  == IF Cutoff(c0.visited, KeyOf(root), 0, limit)
              THEN [c0 EXCEPT !.pc = "returned"]
              ELSE Complete(Suspend(c0, root, 0), st, limit)
        rk == KeyOf(root)
    IN  BuildTree(c, IF rk \in DOMAIN c.allNodes THEN c.allNodes[rk] ELSE StubNode(root, 0), rk)

(***************************************************************************)
(* formatDependencyTreeToMarkdown(tree).  The text is kept as the list of  *)
(* its lines; the pictographs and box-drawing characters of the source are *)
(* written [+] (node), [-] (placeholder), (@) (circular), +- (last branch)  *)
(* and |- (branch), and those of the section titles are left out.          *)
(* formatNodeTree is recursive: every call of it is one step.              *)
(***************************************************************************)
\* item.title || item.id
Label(item) == IF item.title # "" THEN item.title ELSE item.id

Header(t) ==
    << "# Dependency Analysis", "",
       "## Statistics Summary",
       "- Total Objects: " \o Digits(t.summary.total_objects),
       "- Max Dependency Depth: " \o Digits(t.summary.max_depth),
       "- Orphan Objects: " \o Digits(Len(t.summary.orphans)), "" >>
    \o (IF Len(t.summary.top_referenced) > 0
        THEN <<"## Most Referenced Objects">>
             \o [i \in 1..Len(t.summary.top_referenced) |->
                    LET item == t.summary.top_referenced[i]
                    IN  Digits(i) \o ". **" \o Label(item) \o "** (" \o item.type
                            \o ") - Referenced " \o Digits(item.count) \o " times"]
             \o <<"">>
        ELSE <<>>)
    \o (IF Len(t.summary.orphans) > 0
        THEN <<"## Orphan Objects (Not Referenced)">>
             \o [i \in 1..Len(t.summary.orphans) |->
                    LET item == t.summary.orphans[i]
                    IN  "- " \o Label(item) \o " (" \o item.type \o ")"]
             \o <<"">>
        ELSE <<>>)
    \o <<"## Dependency Tree">>

\* A pending call formatNodeTree(node, allNodes, prefix, visited); path lists
\* the keys of the enclosing calls, outermost first.
CallFrame(node, prefix, vis, path) ==
    [kind |-> "call", node |-> node, prefix |-> prefix, visited |-> vis, path |-> path]

\* A line the forEach of an enclosing call writes after the pending calls before it.
LineFrame(text) == [kind |-> "line", text |-> text]

NodeLine(node, prefix) ==
    prefix \o "[+] **" \o Label(node) \o "** (" \o node.type \o ")"

CircularLine(prefix) == prefix \o "  (@) (Circular Reference)"

\* A node is expanded again although it is in visited.
FormatNodeTreeNoMarker(frame, nodes) ==
    LET node == frame.node
        key  == Key(node.type, node.id)
        n    == Len(node.references)
    IN  [lines |-> <<NodeLine(node, frame.prefix)>>,
         work  |-> [i \in 1..n |->
            LET ref    == node.references[i]
                branch == IF i = n THEN "  +- " ELSE "  |- "
            IN  IF Key(ref.type, ref.id) \in DOMAIN nodes
                THEN CallFrame(nodes[Key(ref.type, ref.id)], frame.prefix \o branch,
                               frame.visited \cup {key}, Append(frame.path, key))
                ELSE LineFrame(frame.prefix \o branch \o "[-] "
                        \o (IF ref.name # "" THEN ref.name ELSE ref.id)
                        \o " (" \o ref.type \o ")")]]

\* One call of formatNodeTree: the lines it writes itself and, in order, the
\* calls and placeholder lines of its forEach over node.references.
FormatNodeTree(frame, nodes) ==
    LET node == frame.node
        key  == Key(node.type, node.id)
        n    == Len(node.references)
    IN  IF key \in frame.visited
        THEN [lines |-> <<NodeLine(node, frame.prefix), CircularLine(frame.prefix)>>,
              work  |-> <<>>]
        ELSE [lines |-> <<NodeLine(node, frame.prefix)>>,
              work  |-> [i \in 1..n |->
                LET ref    == node.references[i]
                    branch == IF i = n THEN "  +- " ELSE "  |- "
                IN  IF Key(ref.type, ref.id) \in DOMAIN nodes
                    THEN CallFrame(nodes[Key(ref.type, ref.id)], frame.prefix \o branch,
                                   frame.visited \cup {key}, Append(frame.path, key))
                    ELSE LineFrame(frame.prefix \o branch \o "[-] "
                            \o (IF ref.name # "" THEN ref.name ELSE ref.id)
                            \o " (" \o ref.type \o ")")]]

Reverse(s) == [i \in 1..Len(s) |-> s[Len(s) + 1 - i]]

\* Install the pending work; the function returns md when none is left.
InstallFormat(lines, work) ==
    /\ md' = md \o lines
    /\ fStack' = work
    /\ fPc' = IF work = <<>> THEN "done" ELSE "rendering"

FormatIdle ==
    /\ fPc = "idle"
    /\ fStack = <<>>
    /\ md = <<>>

FormatInit ==
    /\ fPc = "init"
    /\ fStack = <<>>
    /\ md = <<>>

\* The heading, the summary, and the call formatNodeTree(tree.root, tree.allNodes, '', new Set())
FStart ==
    /\ fPc = "init"
    /\ tree.returned
    /\ InstallFormat(Header(tree), <<CallFrame(tree.root, "", {}, <<>>)>>)
    /\ UNCHANGED exceptFormat

\* The next pending call of formatNodeTree runs.
FCall ==
    /\ fPc = "rendering"
    /\ fStack[Len(fStack)].kind = "call"
    /\ LET r == FormatNodeTree(fStack[Len(fStack)], tree.allNodes)
       IN  InstallFormat(r.lines, SubSeq(fStack, 1, Len(fStack) - 1) \o Reverse(r.work))
    /\ UNCHANGED exceptFormat

\* The placeholder line of a reference whose object is not in allNodes is written.
FLeaf ==
    /\ fPc = "rendering"
    /\ fStack[Len(fStack)].kind = "line"
    /\ InstallFormat(<<fStack[Len(fStack)].text>>, SubSeq(fStack, 1, Len(fStack) - 1))
    /\ UNCHANGED exceptFormat

FormatNext == TStart \/ TFetchOk \/ TFetchFail \/ FStart \/ FCall \/ FLeaf

TreeSpecInit ==
    TreeInit /\ SecondIdle /\ FormatIdle /\ ImpactIdle /\ HealthIdle /\ BatchIdle

PairSpecInit ==
    TreeInit /\ SecondInit /\ FormatIdle /\ ImpactIdle /\ HealthIdle /\ BatchIdle

FormatSpecInit ==
    TreeInit /\ SecondIdle /\ FormatInit /\ ImpactIdle /\ HealthIdle /\ BatchIdle

FormatSpec == FormatSpecInit /\ [][FormatNext]_vars

PairSpec == PairSpecInit /\ [][PairNext]_vars

TreeSpec == TreeSpecInit /\ [][TreeNext]_vars

TreeIdle ==
    /\ store = [refs |-> [o \in Objects |-> <<>>], failing |-> {}]
    /\ maxDepth = 0
    /\ tPc = "idle"
    /\ visited = {}
    /\ allNodes = << >>
    /\ nodeOrder = <<>>
    /\ stack = <<>>
    /\ fetchLog = <<>>
    /\ tOutcomes = <<>>
    /\ stubs = {}
    /\ tree = NoTree

ImpactSpecInit ==
    ImpactInit /\ TreeIdle /\ SecondIdle /\ FormatIdle /\ HealthIdle /\ BatchIdle

ImpactSpec == ImpactSpecInit /\ [][ImpactNext]_vars

HealthSpecInit ==
    HealthInit /\ TreeIdle /\ SecondIdle /\ FormatIdle /\ ImpactIdle /\ BatchIdle

HealthSpec == HealthSpecInit /\ [][HealthNext]_vars

BatchSpecInit ==
    BatchInit /\ TreeIdle /\ SecondIdle /\ FormatIdle /\ ImpactIdle /\ HealthIdle

BatchSpec == BatchSpecInit /\ [][BatchNext]_vars

\* One invocation of any one of the four engines.
EngineInit == TreeSpecInit \/ ImpactSpecInit \/ HealthSpecInit \/ BatchSpecInit

EngineNext == TreeNext \/ ImpactNext \/ HealthNext \/ BatchNext

EngineSpec == EngineInit /\ [][EngineNext]_vars

(***************************************************************************)
(* The reference graph declared by the store.                              *)
(***************************************************************************)
ObjOfRef(ref) == [type |-> ref.type, id |-> ref.id]

Succ(o) == {ObjOfRef(store.refs[o][i]) : i \in 1..Len(store.refs[o])}

RECURSIVE ReachFrom(_)
ReachFrom(S) ==
    LET T == S \cup UNION {Succ(o) : o \in S}
    IN  IF T = S THEN S ELSE ReachFrom(T)

Reachable == ReachFrom({RootObj})

\* no object reachable from the root lies on a cycle
Acyclic == \A o \in Reachable : o \notin ReachFrom(Succ(o))

\* length of the longest path starting at o (of an acyclic graph)
RECURSIVE LongestPath(_)
LongestPath(o) ==
    IF Succ(o) = {} THEN 0
    ELSE 1 + (CHOOSE m \in 0..Cardinality(Objects) :
                /\ \E t \in Succ(o) : LongestPath(t) = m
                /\ \A t \in Succ(o) : LongestPath(t) <= m)

SeqSet(s) == {s[i] : i \in 1..Len(s)}

NoDuplicates(s) == \A i, j \in 1..Len(s) : s[i] = s[j] => i = j

(***************************************************************************)
(* Claims about buildDependencyTree.                                       *)
(***************************************************************************)

\* Objects not yet visited, plus one while the call has not returned.
Measure ==
    Cardinality({KeyOf(o) : o \in Objects} \ visited) + (IF tPc = "done" THEN 0 ELSE 1)

\* C1: for every finite reference graph, cycles and self-references
\* included, and every maxDepth >= 0, buildDependencyTree terminates: a call
\* that has not returned can always take its next step, and every step
\* either visits an object not visited before or returns, so the natural
\* number Measure strictly decreases; no object is on the recursion stack
\* twice.
C1_Terminates ==
    /\ [](tPc = "done" \/ CanStart \/ CanResume)
    /\ [](NoDuplicates([i \in 1..Len(stack) |-> KeyOf(stack[i].obj)]))
    /\ [][Measure' < Measure]_vars

\* a cycle A -> B -> A and a self-reference of B have been traversed
C1_Witness ==
    /\ tPc = "done"
    /\ ObjB \in Succ(ObjA) /\ ObjA \in Succ(ObjB) /\ ObjB \in Succ(ObjB)
    /\ store.failing = {}
    /\ maxDepth = MaxDepthBound
    /\ fetchLog = <<KeyOf(ObjA), KeyOf(ObjB)>>

\* C2: for an acyclic graph whose longest path from the root is <= maxDepth
\* and whose reachable objects are all fetched successfully, the returned
\* allNodes holds exactly the objects reachable from the root, and
\* summary.total_objects is their number.
C2_CountsReachable ==
    (tPc = "done" /\ Acyclic /\ Reachable \cap store.failing = {}
        /\ LongestPath(RootObj) <= maxDepth)
    => /\ tree.summary.total_objects = Cardinality(Reachable)
       /\ DOMAIN tree.allNodes = {KeyOf(o) : o \in Reachable}

\* a diamond A -> B -> C, A -> C of depth 2 has been traversed
C2_Witness ==
    /\ tPc = "done" /\ Acyclic /\ store.failing = {}
    /\ LongestPath(RootObj) = 2 /\ maxDepth = 2
    /\ Succ(ObjA) = {ObjB, ObjC} /\ Succ(ObjB) = {ObjC}
    /\ tree.summary.total_objects = 3

\* C3: when buildDependencyTree returns, a (type,id) is a key of allNodes if
\* and only if a fetch of it was issued, whether the fetch succeeded or failed.
C3_NodeIffFetched ==
    tPc = "done" => DOMAIN tree.allNodes = SeqSet(fetchLog)

C5_RootNeverOrphan ==
    tPc = "done" =>
        \A i \in 1..Len(tree.summary.orphans) :
            ~(/\ tree.summary.orphans[i].id = RootObj.id
              /\ tree.summary.orphans[i].type = RootObj.type)

\* the root was fetched and nothing references it
C5_Witness ==
    /\ tPc = "done"
    /\ KeyOf(RootObj) \in DOMAIN tree.allNodes
    /\ tree.allNodes[KeyOf(RootObj)].referencedBy = <<>>
    /\ Cardinality(DOMAIN tree.allNodes) = 3

\* C16: during one buildDependencyTree call at most one fetch is issued for
\* each (type,id): an object reached again, through a cycle or through a
\* second parent, is not fetched again, and an object whose fetch failed is
\* never retried.
C16_FetchedOnce ==
    /\ NoDuplicates(fetchLog)
    /\ Len(tOutcomes) <= Len(fetchLog)
    /\ \A i \in 1..Len(tOutcomes) :
         tOutcomes[i] = "error" =>
            Cardinality({j \in 1..Len(fetchLog) : fetchLog[j] = fetchLog[i]}) = 1

\* C is referenced by A and by B, B refers back to A, and the fetch of C failed
C16_Witness ==
    /\ tPc = "done"
    /\ store.refs[ObjA] = <<RefEntry(ObjB), RefEntry(ObjC)>>
    /\ store.refs[ObjB] = <<RefEntry(ObjC), RefEntry(ObjA)>>
    /\ store.failing = {ObjC}
    /\ fetchLog = <<KeyOf(ObjA), KeyOf(ObjB), KeyOf(ObjC)>>
    /\ tOutcomes = <<"ok", "ok", "error">>

\* A step keeps the depth of every node and gives a new node the recursion
\* depth of the call that fetched it.
DepthsKept ==
    /\ \A k \in DOMAIN allNodes :
         k \in DOMAIN allNodes' /\ allNodes'[k].depth = allNodes[k].depth
    /\ \A k \in DOMAIN allNodes' \ DOMAIN allNodes :
         allNodes'[k].depth = Len(stack) - 1

\* C17: no object is fetched or expanded at a depth greater than maxDepth:
\* every suspended traverse() call and every node of allNodes has a depth in
\* 0..maxDepth, the root has depth 0, a node enters allNodes with the
\* recursion depth of the call that fetched it and keeps that depth, and
\* summary.max_depth <= maxDepth.
C17_DepthBounded ==
    /\ [](\A i \in 1..Len(stack) : stack[i].depth = i - 1 /\ stack[i].depth <= maxDepth)
    /\ [](\A k \in DOMAIN allNodes : allNodes[k].depth \in 0..maxDepth)
    /\ [](KeyOf(RootObj) \in DOMAIN allNodes => allNodes[KeyOf(RootObj)].depth = 0)
    /\ [](tPc = "done" =>
            /\ tree.allNodes = allNodes
            /\ tree.root.depth = 0
            /\ tree.summary.max_depth <= maxDepth)
    /\ [][DepthsKept]_vars

\* a chain A -> B -> C with maxDepth 1: C is never fetched
C17_Witness ==
    /\ tPc = "done"
    /\ maxDepth = 1
    /\ Succ(ObjA) = {ObjB} /\ Succ(ObjB) = {ObjC}
    /\ store.failing = {}
    /\ fetchLog = <<KeyOf(ObjA), KeyOf(ObjB)>>
    /\ tree.allNodes[KeyOf(ObjB)].depth = 1
    /\ tree.summary.max_depth = 1

\* number of entries of the list refs that name the node with key k
EntriesNaming(refs, k) ==
    Cardinality({i \in 1..Len(refs) : Key(refs[i].type, refs[i].id) = k})

\* position of key k in the fetch log, 0 when it was never fetched
FetchPosition(k) ==
    IF k \in SeqSet(fetchLog) THEN CHOOSE i \in 1..Len(fetchLog) : fetchLog[i] = k ELSE 0

\* references the traversal dropped because of maxDepth: the referring node
\* lies at depth maxDepth and the referenced object had not been visited
DepthCutoffs ==
    {<<pk, i>> \in (DOMAIN allNodes) \X (1..MaxRefs) :
        /\ i <= Len(allNodes[pk].references)
        /\ allNodes[pk].depth = maxDepth
        /\ LET ck == Key(allNodes[pk].references[i].type, allNodes[pk].references[i].id)
           IN  FetchPosition(ck) = 0 \/ FetchPosition(ck) > FetchPosition(pk)}

\* C18: when buildDependencyTree returns, every entry of a node's
\* referencedBy names a node of allNodes whose references contain that node;
\* and when every fetch succeeded and maxDepth cut no reference off, a node c
\* has for every node p exactly as many referencedBy entries naming p as p
\* has reference entries naming c, cycles and second parents included.
C18_ReferencedByMirrorsReferences ==
    tPc = "done" =>
        /\ \A ck \in DOMAIN tree.allNodes :
             \A i \in 1..Len(tree.allNodes[ck].referencedBy) :
                LET e  == tree.allNodes[ck].referencedBy[i]
                    pk == Key(e.type, e.id)
                IN  /\ pk \in DOMAIN tree.allNodes
                    /\ EntriesNaming(tree.allNodes[pk].references, ck) > 0
        /\ ("error" \notin SeqSet(tOutcomes) /\ DepthCutoffs = {}) =>
             \A ck, pk \in DOMAIN tree.allNodes :
                EntriesNaming(tree.allNodes[ck].referencedBy, pk)
                    = EntriesNaming(tree.allNodes[pk].references, ck)

\* a cycle A -> B -> A in which C is referenced by both A and B
C18_Witness ==
    /\ tPc = "done"
    /\ store.refs[ObjA] = <<RefEntry(ObjB), RefEntry(ObjC)>>
    /\ store.refs[ObjB] = <<RefEntry(ObjA), RefEntry(ObjC)>>
    /\ store.failing = {}
    /\ maxDepth = 2
    /\ DepthCutoffs = {}
    /\ Len(tree.allNodes[KeyOf(ObjC)].referencedBy) = 2
    /\ Len(tree.allNodes[KeyOf(ObjA)].referencedBy) = 1

\* C15: two buildDependencyTree calls, with the same root or different
\* roots, whose steps interleave at their fetches against an unchanged store
\* share no state: the visited set and the node map of each call hold only
\* what that call fetched itself, and each call returns the tree it returns
\* when it runs alone.
C15_CallsIndependent ==
    /\ visited = SeqSet(fetchLog)
    /\ second.visited = SeqSet(second.fetchLog)
    /\ DOMAIN allNodes \subseteq SeqSet(fetchLog)
    /\ DOMAIN second.allNodes \subseteq SeqSet(second.fetchLog)
    /\ tPc = "done" => tree = SoloTree(store, RootObj, maxDepth)
    /\ second.pc = "done" => second.tree = SoloTree(store, second.root, maxDepth)

\* both calls have returned the tree of the cycle A -> B -> A with C below
\* both, steps of the second having run while the first awaited a fetch
C15_Witness ==
    /\ tPc = "done" /\ second.pc = "done"
    /\ second.root = RootObj
    /\ second.interleaved
    /\ store.refs[ObjA] = <<RefEntry(ObjB), RefEntry(ObjC)>>
    /\ store.refs[ObjB] = <<RefEntry(ObjA), RefEntry(ObjC)>>
    /\ store.failing = {}
    /\ maxDepth = 2
    /\ second.tree = tree
    /\ tree.summary.total_objects = 3

\* keys a formatNodeTree call can meet: those of allNodes and that of the root
FUniverse == DOMAIN tree.allNodes \cup {KeyOf(RootObj)}

\* most formatNodeTree calls and lines a call can cause when j keys are not
\* in its visited set
RECURSIVE CallBound(_)
CallBound(j) == IF j = 0 THEN 1 ELSE 1 + MaxRefs * CallBound(j - 1)

FWeight(frame) ==
    IF frame.kind = "line" THEN 1
    ELSE IF Key(frame.node.type, frame.node.id) \in frame.visited THEN 1
    ELSE CallBound(Cardinality(FUniverse \ frame.visited))

RECURSIVE FWeights(_)
FWeights(frames) == IF frames = <<>> THEN 0 ELSE FWeight(frames[1]) + FWeights(Tail(frames))

\* bound on the steps formatDependencyTreeToMarkdown still takes
FMeasure ==
    IF fPc = "init" THEN CallBound(Cardinality(FUniverse)) + 1 ELSE FWeights(fStack)

\* the next pending call is for a node that is on the path from the root to itself
OnOwnPath ==
    /\ fPc = "rendering"
    /\ fStack[Len(fStack)].kind = "call"
    /\ Key(fStack[Len(fStack)].node.type, fStack[Len(fStack)].node.id)
            \in SeqSet(fStack[Len(fStack)].path)

\* the step writes the node's line and the marker and expands nothing
MarkedNotExpanded ==
    /\ md' = md \o << NodeLine(fStack[Len(fStack)].node, fStack[Len(fStack)].prefix),
                      CircularLine(fStack[Len(fStack)].prefix) >>
    /\ fStack' = SubSeq(fStack, 1, Len(fStack) - 1)

\* C19: formatDependencyTreeToMarkdown terminates on every tree that
\* buildDependencyTree returns: it can always take its next step until it
\* has returned and every step lowers the natural number FMeasure; the
\* visited set of a formatNodeTree call holds exactly the nodes on the path
\* from the root to it, and a node met again on its own path (cycle
\* A -> B -> A) is written with the circular-reference marker and its
\* references are not expanded again.
C19_FormatTerminates ==
    /\ [](tree.returned =>
            \/ fPc = "init"
            \/ fPc = "rendering" /\ fStack # <<>>
            \/ fPc = "done" /\ fStack = <<>>)
    /\ [][tree.returned => FMeasure' < FMeasure]_vars
    /\ [](\A i \in 1..Len(fStack) :
            fStack[i].kind = "call" =>
                /\ fStack[i].visited = SeqSet(fStack[i].path)
                /\ NoDuplicates(fStack[i].path)
                /\ fStack[i].path # <<>> => fStack[i].path[1] = KeyOf(RootObj))
    /\ [][OnOwnPath => MarkedNotExpanded]_vars

\* the cycle A -> B -> A has been written: A, below it B, below B again A
\* with the marker
C19_Witness ==
    /\ fPc = "done"
    /\ store.refs[ObjA] = <<RefEntry(ObjB)>>
    /\ store.refs[ObjB] = <<RefEntry(ObjA)>>
    /\ store.failing = {}
    /\ maxDepth = 2
    /\ SubSeq(md, Len(md) - 3, Len(md))
            = << "[+] **Sales** (dashboard)",
                 "  +- [+] **v1** (visualization)",
                 "  +-   +- [+] **Sales** (dashboard)",
                 "  +-   +-   (@) (Circular Reference)" >>

(***************************************************************************)
(* Claims about analyzeImpact.                                             *)
(***************************************************************************)
DashboardCount(deps) == Cardinality({i \in 1..Len(deps) : deps[i].type = "dashboard"})

RiskRank(risk) ==
    CASE risk = "Low" -> 0 [] risk = "Medium" -> 1 [] risk = "High" -> 2
      [] risk = "Critical" -> 3

\* C6: risk_level is determined by n, the number of dashboards among the
\* direct dependents, alone: n = 0 -> Low, 1..5 -> Medium, 6..10 -> High,
\* n > 10 -> Critical, whatever indirect_dependencies and the number of
\* other dependents are; and it does not decrease when n grows.
C6_RiskByDashboardCount ==
    iPc = "done" =>
        LET n == DashboardCount(directDeps)
        IN  /\ Len(impact.affected_dashboards) = n
            /\ n = 0 => impact.risk_level = "Low"
            /\ n \in 1..5 => impact.risk_level = "Medium"
            /\ n \in 6..10 => impact.risk_level = "High"
            /\ n > 10 => impact.risk_level = "Critical"
            /\ \A m \in 0..n : RiskRank(RiskLevel(m)) <= RiskRank(impact.risk_level)

\* five dashboards among seven dependents, with indirect dependencies: Medium
C6_Witness ==
    /\ iPc = "done"
    /\ DashboardCount(directDeps) = 5
    /\ impact.direct_dependencies = 7
    /\ impact.indirect_dependencies = 4
    /\ impact.risk_level = "Medium"

\* C7: analyzeImpact is all-or-nothing: the call fails, with a wrapped error
\* and without any ImpactAnalysis, exactly when one of its requests (the
\* first reverse-find, a second-level reverse-find, the fetch of the target)
\* has failed; when every request has been answered it returns a result.
C7_AllOrNothing ==
    /\ ("error" \in SeqSet(iOutcomes)) <=> (iPc = "failed")
    /\ iPc = "failed" =>
         /\ DOMAIN impact = {"status", "message"}
         /\ impact.status = "rejected"
         /\ impact.message \in {"Impact analysis failed: " \o m : m \in ErrorMessages}
    /\ iPc \in {"awaitDirect", "awaitSecond", "awaitTarget"} =>
         /\ impact = NoImpact
         /\ Len(iRequests) = Len(iOutcomes) + 1
    /\ iPc = "done" =>
         /\ impact.status = "returned"
         /\ Len(iOutcomes) = Len(iRequests)
         /\ Len(iOutcomes) = 2 + Len(directDeps) - DashboardCount(directDeps)

\* the second of two second-level reverse-finds failed after hits were counted
C7_Witness ==
    /\ iPc = "failed"
    /\ iOutcomes = <<"ok", "ok", "error">>
    /\ indirectCount > 0
    /\ DashboardCount(directDeps) > 0

IsFind(request) == request.path = "/api/saved_objects/_find"

NotDashboard(obj) == obj.type # "dashboard"

RECURSIVE Sum(_)
Sum(s) == IF s = <<>> THEN 0 ELSE s[1] + Sum(Tail(s))

\* C20: indirect_dependencies is the sum, over the direct dependents that
\* are not dashboards, of the number of objects one reverse-find against
\* that dependent returned (a dashboard found through two dependents counts
\* twice); the reverse-finds issued are the first one against the target
\* and one for dashboards against each such dependent, in order: none
\* against a dashboard-typed dependent or a second-level result, 1 + (number
\* of direct dependents that are not dashboards) in all.
C20_IndirectIsSumOfHits ==
    LET finds  == SelectSeq(iRequests, IsFind)
        others == SelectSeq(directDeps, NotDashboard)
    IN  /\ \A i \in 2..Len(finds) :
             /\ finds[i].type = <<"dashboard">>
             /\ finds[i].hasReference.type # "dashboard"
             /\ i - 1 <= Len(others)
             /\ finds[i].hasReference = [type |-> others[i - 1].type, id |-> others[i - 1].id]
        /\ iPc = "done" =>
             /\ finds[1] = FindRequest(DirectTypes, Target)
             /\ Len(finds) = 1 + Len(others)
             /\ Len(iHits) = Len(others)
             /\ impact.indirect_dependencies = Sum(iHits)

\* two dependents that are not dashboards, each used by the same two dashboards
C20_Witness ==
    /\ iPc = "done"
    /\ Len(SelectSeq(directDeps, NotDashboard)) = 2
    /\ DashboardCount(directDeps) = 3
    /\ iHits = <<2, 2>>
    /\ impact.indirect_dependencies = 4
    /\ Len(SelectSeq(iRequests, IsFind)) = 3

(***************************************************************************)
(* Claims about analyzeDashboardHealth.                                    *)
(***************************************************************************)
LayoutKind == dashboard.attributes.panelsJSON.kind

\* C8: when the fetched dashboard has no panel layout at all, the call
\* returns overall_status unhealthy, overall_score 0, panel_count 0, no
\* panels and exactly one global issue, of severity error and category
\* configuration, and the fetch of the dashboard is the only request issued.
C8_NoLayoutShortCircuit ==
    (dashboard.status = "ok" /\ LayoutKind \in {"undefined", "empty"}) =>
        /\ hPc \in {"init", "awaitRoot", "done"}
        /\ Len(hRequests) <= 1
        /\ hPc = "done" =>
            /\ health.status = "returned"
            /\ health.overall_status = "unhealthy"
            /\ health.overall_score = 0
            /\ health.panel_count = 0
            /\ health.panels = <<>>
            /\ Len(health.global_issues) = 1
            /\ health.global_issues[1].severity = "error"
            /\ health.global_issues[1].category = "configuration"
            /\ hRequests = <<GetRequest([type |-> "dashboard", id |-> DashboardId])>>

\* a dashboard without panelsJSON but with index patterns, checkESIndices set
C8_Witness ==
    /\ hPc = "done"
    /\ LayoutKind = "undefined"
    /\ checkESIndices
    /\ Len(IndexPatternRefs(dashboard)) = 4
    /\ health.overall_score = 0

\* C9: a dashboard with zero panels gets overall_score 0, overall_status
\* unhealthy and exactly one global issue, both when the panel layout is
\* absent and when it is present and lists no panels.
C9_ZeroPanelsUnhealthy ==
    (hPc = "done" /\ health.panel_count = 0) =>
        /\ health.overall_score = 0
        /\ health.overall_status = "unhealthy"
        /\ Len(health.global_issues) = 1

\* C10: for a dashboard with a panel layout the score is
\* max(0, min(100, 100 - 20 U - 5 W - 10 G)), U and W the numbers of unhealthy
\* and warning panels and G the number of global issues; it lies in 0..100
\* (50 unhealthy panels give 0) and one more unhealthy panel, warning panel
\* or global issue never raises it.
C10_ScoreFormula ==
    (hPc = "done" /\ LayoutKind = "list") =>
        LET U   == Cardinality({i \in 1..Len(health.panels) :
                                    health.panels[i].status = "unhealthy"})
            W   == Cardinality({i \in 1..Len(health.panels) :
                                    health.panels[i].status = "warning"})
            G   == Len(health.global_issues)
            raw == 100 - 20 * U - 5 * W - 10 * G
        IN  /\ health.overall_score = Max(0, IF raw < 100 THEN raw ELSE 100)
            /\ health.overall_score \in 0..100
            /\ HealthScore(U + 1, W, G) <= health.overall_score
            /\ HealthScore(U, W + 1, G) <= health.overall_score
            /\ HealthScore(U, W, G + 1) <= health.overall_score
            /\ HealthScore(50, W, G) = 0

\* 21 unhealthy panels after a warning panel and three global issues: score 0
C10_Witness ==
    /\ hPc = "done" /\ LayoutKind = "list"
    /\ health.summary.unhealthy_panels = 21
    /\ health.summary.warning_panels = 1
    /\ Len(health.global_issues) = 3
    /\ health.overall_score = 0

\* C11: for a dashboard with a panel layout, overall_status is unhealthy
\* exactly when some panel is unhealthy or some global issue is critical;
\* otherwise it is warning exactly when some panel is warning or some global
\* issue exists; otherwise it is healthy.
C11_OverallStatus ==
    (hPc = "done" /\ LayoutKind = "list") =>
        LET anyUnhealthy == \E i \in 1..Len(health.panels) :
                                health.panels[i].status = "unhealthy"
            anyWarning   == \E i \in 1..Len(health.panels) :
                                health.panels[i].status = "warning"
            anyCritical  == \E i \in 1..Len(health.global_issues) :
                                health.global_issues[i].severity = "critical"
            anyGlobal    == health.global_issues # <<>>
        IN  /\ health.overall_status \in {"unhealthy", "warning", "healthy"}
            /\ health.overall_status = "unhealthy" <=> (anyUnhealthy \/ anyCritical)
            /\ ~(anyUnhealthy \/ anyCritical) =>
                 (health.overall_status = "warning" <=> (anyWarning \/ anyGlobal))
            /\ ~(anyUnhealthy \/ anyCritical \/ anyWarning \/ anyGlobal) =>
                 health.overall_status = "healthy"

\* every panel is healthy and a missing index pattern makes the dashboard unhealthy
C11_Witness ==
    /\ hPc = "done" /\ LayoutKind = "list"
    /\ Len(health.panels) = 2
    /\ \A i \in 1..Len(health.panels) : health.panels[i].status = "healthy"
    /\ Len(health.global_issues) = 1
    /\ health.global_issues[1].severity = "critical"
    /\ health.overall_status = "unhealthy"

\* C12: analyzeDashboardHealth fails only when the dashboard itself cannot
\* be fetched: once the fetch of the dashboard has succeeded the call never
\* rejects, whatever the panel-layout payload holds and however the fetches
\* of the panels' objects and of the index patterns end.
C12_FailsOnlyOnRootFetch ==
    dashboard.status = "ok" => hPc # "failed"

(***************************************************************************)
(* Claims about batchAnalyzeDashboards.                                    *)
(***************************************************************************)
Ids(s) == [i \in 1..Len(s) |-> s[i].id]

HasReturned(call) == call.outcome = "returned"

\* C13: batchAnalyzeDashboards is best-effort per dashboard: a failed
\* analysis does not abort the scan (the call fails only when the listing
\* itself fails, and every listed dashboard is analysed, in listing order);
\* the report's dashboards are exactly the listed dashboards whose analysis
\* returned, in listing order, and summary.total_dashboards is their number.
C13_BestEffort ==
    /\ bPc = "failed" <=> bOutcomes = <<"error">>
    /\ Len(analysed) <= Len(dashboards)
    /\ Ids(analysed) = SubSeq(Ids(dashboards), 1, Len(analysed))
    /\ Ids(healthReports) = Ids(SelectSeq(analysed, HasReturned))
    /\ bPc = "done" =>
         /\ Len(analysed) = Len(dashboards)
         /\ batch.status = "returned"
         /\ batch.dashboards = healthReports
         /\ \A i \in 1..Len(batch.dashboards) : batch.dashboards[i].status = "returned"
         /\ batch.summary.total_dashboards = Len(batch.dashboards)

\* ten dashboards listed, the analysis of the fourth failed: nine reports
C13_Witness ==
    /\ bPc = "done"
    /\ Len(dashboards) = 10
    /\ analysed[4].outcome = "rejected"
    /\ Len(SelectSeq(analysed, HasReturned)) = 9
    /\ Len(batch.dashboards) = 9
    /\ batch.dashboards[4].id = "dash-5"
    /\ batch.summary.total_dashboards = 9

(***************************************************************************)
(* Claims about all the engines.                                           *)
(***************************************************************************)

\* requests issued and not yet answered
Outstanding(requests, outcomes) == Len(requests) - Len(outcomes)

\* C14: within one invocation of an engine at most one request to the
\* object store is outstanding at any time, a request being issued only
\* after the previous one was answered; the suspended traverse() calls form
\* one path of the graph, each expanding one child (depth-first, one child at
\* a time), and the panels of a dashboard and the dashboards of a batch are
\* handled one at a time.
C14_OneRequestAtATime ==
    /\ Outstanding(fetchLog, tOutcomes) = (IF tPc = "fetching" THEN 1 ELSE 0)
    /\ Outstanding(iRequests, iOutcomes)
            = (IF iPc \in {"awaitDirect", "awaitSecond", "awaitTarget"} THEN 1 ELSE 0)
    /\ Outstanding(hRequests, hOutcomes)
            = (IF hPc \in {"awaitRoot", "awaitPanel", "awaitIndex"} THEN 1 ELSE 0)
    /\ Outstanding(bRequests, bOutcomes) = (IF bPc = "awaitList" THEN 1 ELSE 0)
    /\ Outstanding(hRequests, hOutcomes) + Outstanding(bRequests, bOutcomes) <= 1
    /\ tPc = "fetching" => fetchLog[Len(fetchLog)] = KeyOf(stack[Len(stack)].obj)
    /\ \A i \in 1..(Len(stack) - 1) :
         LET refs == allNodes[KeyOf(stack[i].obj)].references
         IN  /\ stack[i].idx \in 1..Len(refs)
             /\ ObjOfRef(refs[stack[i].idx]) = stack[i + 1].obj
    /\ hPc = "awaitPanel" => Len(panelHealths) = hIdx - 1
    /\ bPc = "awaitHealth" =>
         /\ Len(analysed) = bIdx - 1
         /\ dashboard.id = dashboards[bIdx].id
         /\ hPc \in {"awaitRoot", "awaitPanel", "done", "failed"}

\* a batch scan awaits the panel fetch of its third dashboard
C14_Witness ==
    /\ bPc = "awaitHealth" /\ bIdx = 3 /\ hPc = "awaitPanel"
    /\ Len(bRequests) = 1
    /\ Outstanding(hRequests, hOutcomes) = 1
    /\ Len(analysed) = 2

(***************************************************************************)
(* Claims about the panels and the global checks of a health report.       *)
(***************************************************************************)
AnySevere(issues) ==
    \E j \in 1..Len(issues) : issues[j].severity \in {"error", "critical"}

StatusDerived(p) ==
    /\ p.status \in {"unhealthy", "warning", "healthy"}
    /\ p.status = "unhealthy" <=> AnySevere(p.issues)
    /\ p.status = "warning" <=> (p.issues # <<>> /\ ~AnySevere(p.issues))
    /\ p.status = "healthy" <=> p.issues = <<>>

\* C21: every PanelHealth the analysis produces, while it is collected and
\* in the returned result, has status unhealthy exactly when one of its
\* issues has severity error or critical, warning exactly when it has an
\* issue and none is error or critical, and healthy exactly when it has no
\* issue.
C21_PanelStatusDerived ==
    /\ \A i \in 1..Len(panelHealths) : StatusDerived(panelHealths[i])
    /\ (hPc = "done" /\ health.status = "returned") =>
            \A i \in 1..Len(health.panels) : StatusDerived(health.panels[i])

\* a panel whose only issue is critical is followed by two panels whose only
\* issue is a warning
C21_Witness ==
    /\ hPc = "done" /\ LayoutKind = "list"
    /\ Len(health.panels) = 3
    /\ health.panels[1].status = "unhealthy"
    /\ Len(health.panels[1].issues) = 1
    /\ health.panels[1].issues[1].severity = "critical"
    /\ health.panels[2].status = "warning"
    /\ health.panels[3].status = "warning"

\* the entries of dashboard.references named like the panel's reference key
Wiring(panel) ==
    {k \in 1..Len(dashboard.references) :
        dashboard.references[k].name =
            (IF panel.panelRefName # "" THEN panel.panelRefName ELSE panel.id)}

\* the entry references.find() returns: the first one of that name
WiredTo(panel) ==
    dashboard.references[CHOOSE k \in Wiring(panel) : \A m \in Wiring(panel) : k <= m]

IsBrokenReference(issue) == issue.category = "broken_reference"

\* the fetches the panels seen so far account for, in the order of the panels
RECURSIVE WiredFetches(_)
WiredFetches(ps) ==
    IF ps = <<>> THEN <<>>
    ELSE (IF Wiring(ps[1]) = {} THEN <<>>
          ELSE <<[method |-> "GET",
                  path |-> "/api/saved_objects/" \o WiredTo(ps[1]).type
                              \o "/" \o WiredTo(ps[1]).id]>>)
         \o WiredFetches(Tail(ps))

\* the panels whose check is over or whose fetch is awaited
PanelsSeen ==
    SubSeq(panels, 1, IF hPc = "awaitPanel" THEN hIdx ELSE Len(panelHealths))

C23_FetchFailureRecorded ==
    /\ hPc = "failed" => Len(hOutcomes) = 1
    /\ \A i \in 1..Len(panelHealths) :
            (Wiring(panels[i]) # {} /\ ObjectStatus(WiredTo(panels[i]).id) # "ok") =>
                /\ SelectSeq(panelHealths[i].issues, IsBrokenReference) # <<>>
                /\ panelHealths[i].status # "healthy"

IsPerformance(issue) == issue.category = "performance"

\* C24: the result of a dashboard with a panel layout has exactly one global
\* issue of category performance, of severity warning, when it has more than
\* 20 panels and none when it has 20 or fewer; 25 panels that are all
\* healthy, with no index pattern reported missing, give exactly one global
\* issue, score 90 and overall_status warning.
C24_TooManyPanels ==
    (hPc = "done" /\ LayoutKind = "list") =>
        LET slow == SelectSeq(health.global_issues, IsPerformance)
        IN  /\ health.panel_count > 20 => Len(slow) = 1 /\ slow[1].severity = "warning"
            /\ health.panel_count <= 20 => slow = <<>>
            /\ (/\ health.panel_count = 25
                /\ \A i \in 1..Len(health.panels) : health.panels[i].status = "healthy"
                /\ SelectSeq(health.global_issues, IsBrokenReference) = <<>>) =>
                    /\ Len(health.global_issues) = 1
                    /\ health.overall_score = 90
                    /\ health.overall_status = "warning"

\* the scenario: 25 panels, all healthy
C24_Witness ==
    /\ hPc = "done" /\ LayoutKind = "list"
    /\ Len(panels) = 25
    /\ Len(health.panels) = 25
    /\ \A i \in 1..25 : health.panels[i].status = "healthy"
    /\ Len(health.global_issues) = 1
    /\ health.overall_score = 90

\* the requests issued after those of the loop over the panels
GlobalFetches ==
    SubSeq(hRequests, 2 + Len(WiredFetches(panels)), Len(hRequests))

CriticalPlaces(reports) ==
    UNION {
        {<<d, 0, j>> : j \in {j \in 1..Len(reports[d].global_issues) :
                                reports[d].global_issues[j].severity = "critical"}}
        \cup UNION {
            {<<d, q, j>> : j \in {j \in 1..Len(reports[d].panels[q].issues) :
                                    reports[d].panels[q].issues[j].severity = "critical"}}
            : q \in 1..Len(reports[d].panels)}
        : d \in 1..Len(reports)}

\* C26: in every report batchAnalyzeDashboards returns, the healthy, warning
\* and unhealthy counts add up to total_dashboards, which is the length of
\* dashboards, and critical_issues is the number of issues of severity
\* critical among the global issues and the panels' issues of all dashboards
\* of the report.
C26_BatchSummary ==
    (bPc = "done" /\ batch.status = "returned") =>
        /\ batch.summary.healthy + batch.summary.warning + batch.summary.unhealthy
                = batch.summary.total_dashboards
        /\ batch.summary.total_dashboards = Len(batch.dashboards)
        /\ batch.summary.critical_issues = Cardinality(CriticalPlaces(batch.dashboards))

\* three dashboards reported: two with a panel whose object is missing, one healthy
C26_Witness ==
    /\ bPc = "done" /\ batch.status = "returned"
    /\ Len(batch.dashboards) = 3
    /\ batch.summary.unhealthy = 2
    /\ batch.summary.healthy = 1
    /\ batch.summary.critical_issues = 2

(***************************************************************************)
(* Claims about the orphans of buildDependencyTree.                        *)
(***************************************************************************)
\* C27: when buildDependencyTree has returned, every node of allNodes other
\* than the root has at least one referencedBy entry and summary.orphans is
\* empty, whatever the graph, maxDepth and the fetches that fail.
C27_NoOrphans ==
    tPc = "done" =>
        /\ \A k \in DOMAIN tree.allNodes :
                k # Key(RootObj.type, RootObj.id) =>
                    Len(tree.allNodes[k].referencedBy) >= 1
        /\ tree.summary.orphans = <<>>

\* two nodes were kept, a third object could not be fetched, nothing is an orphan
C27_Witness ==
    /\ tPc = "done"
    /\ store.failing # {}
    /\ Len(fetchLog) = 3
    /\ Cardinality(DOMAIN tree.allNodes) = 2
    /\ tree.allNodes[Key(RootObj.type, RootObj.id)].referencedBy = <<>>
    /\ tree.summary.orphans = <<>>

(***************************************************************************)
(* Claims about the totals of a health report.                             *)
(***************************************************************************)
\* C28: in every result analyzeDashboardHealth returns, overall_status is
\* healthy exactly when overall_score is 100: a result with an unhealthy
\* panel, a warning panel or a global issue scores below 100, and a result
\* that scores 100 has none of them.
C28_HealthyIffFullScore ==
    (hPc = "done" /\ health.status = "returned") =>
        LET flawed ==
                \/ \E i \in 1..Len(health.panels) :
                        health.panels[i].status \in {"unhealthy", "warning"}
                \/ health.global_issues # <<>>
        IN  /\ health.overall_status = "healthy" <=> health.overall_score = 100
            /\ flawed => health.overall_score < 100
            /\ health.overall_score = 100 => ~flawed

\* 21 healthy panels: the only flaw is the global issue about the panel count
C28_Witness ==
    /\ hPc = "done" /\ LayoutKind = "list"
    /\ Len(health.panels) = 21
    /\ \A i \in 1..Len(health.panels) : health.panels[i].status = "healthy"
    /\ Len(health.global_issues) = 1
    /\ health.overall_status = "warning"
    /\ health.overall_score = 90

\* <<panel, issue>> for every issue of every panel
PanelIssuePlaces(phs) ==
    UNION {{<<q, j>> : j \in 1..Len(phs[q].issues)} : q \in 1..Len(phs)}

\* C29: in every result analyzeDashboardHealth returns, the healthy, warning
\* and unhealthy panel counts add up to panel_count, which is the length of
\* panels; total_issues is the number of issues of all panels plus the
\* number of global issues; every panel has at most three issues and at
\* most one of the two broken_reference issues.
C29_SummaryTotals ==
    (hPc = "done" /\ health.status = "returned") =>
        /\ health.summary.healthy_panels + health.summary.warning_panels
                + health.summary.unhealthy_panels = health.panel_count
        /\ health.panel_count = Len(health.panels)
        /\ health.summary.total_issues =
                Cardinality(PanelIssuePlaces(health.panels)) + Len(health.global_issues)
        /\ \A i \in 1..Len(health.panels) :
                /\ Len(health.panels[i].issues) <= 3
                /\ Len(SelectSeq(health.panels[i].issues, IsBrokenReference)) <= 1

\* a panel with three issues heads 20 panels with one issue each; two index
\* patterns are missing
C29_Witness ==
    /\ hPc = "done" /\ LayoutKind = "list"
    /\ Len(health.panels) = 21
    /\ Len(health.panels[1].issues) = 3
    /\ Len(health.global_issues) = 3
    /\ health.summary.total_issues = 26
    /\ health.summary.unhealthy_panels = 1
    /\ health.summary.warning_panels = 20

(***************************************************************************)
(* Claims about the order of the requests of analyzeImpact.                *)
(***************************************************************************)
IsTargetFetch(request) == request.method = "GET"

\* C30: the fetch of the target is the last request analyzeImpact issues.
\* When it is issued the first reverse-find and one second-level
\* reverse-find for every direct dependent that is no dashboard, in their
\* order, have been issued and have all answered; this also holds when the
\* fetch of the target then fails.  When a reverse-find fails the call fails
\* and the target is never fetched.
C30_TargetFetchedLast ==
    /\ \A k \in 1..Len(iRequests) : IsTargetFetch(iRequests[k]) => k = Len(iRequests)
    /\ (iRequests # <<>> /\ IsTargetFetch(iRequests[Len(iRequests)])) =>
            LET n      == Len(iRequests)
                others == SelectSeq(directDeps, NotDashboard)
            IN  /\ n = Len(others) + 2
                /\ iRequests[1] = FindRequest(DirectTypes, Target)
                /\ \A k \in 1..Len(others) :
                        iRequests[k + 1] = FindRequest(<<"dashboard">>, others[k])
                /\ iRequests[n] = GetRequest(Target)
                /\ Len(iOutcomes) >= n - 1
                /\ \A k \in 1..(n - 1) : iOutcomes[k] = "ok"
    /\ \A k \in 1..Len(iOutcomes) :
            (iOutcomes[k] = "error" /\ ~IsTargetFetch(iRequests[k])) =>
                /\ iPc = "failed"
                /\ k = Len(iRequests)
                /\ \A m \in 1..Len(iRequests) : ~IsTargetFetch(iRequests[m])

\* the target cannot be fetched: the call fails after the first reverse-find
\* and both second-level reverse-finds, issued around a dashboard, answered
C30_Witness ==
    /\ iPc = "failed"
    /\ Len(iRequests) = 4
    /\ IsTargetFetch(iRequests[4])
    /\ iOutcomes = <<"ok", "ok", "ok", "error">>
    /\ Len(directDeps) >= 3
    /\ directDeps[1].type = "dashboard"


====
